---- MODULE Spec2Model ----
(***************************************************************************)
(* Model of the layout inference stage of the protocol documentation       *)
(* generator (scripts/generate-wiki-ts/src/layout-analyzer.ts).            *)
(*                                                                         *)
(* A LayoutAnalyzer is constructed with options; a client then calls one   *)
(* of its two public methods: analyzePackets (the batch controller) or     *)
(* analyzePacket (one inference call).  The inference service is external: *)
(* each request either raises an error, yields no structured output, or    *)
(* yields an object that conforms to LayoutAnalysisSchema.                 *)
(***************************************************************************)
EXTENDS Integers, Sequences, FiniteSets, TLC

(* ------------------------------ bounds --------------------------------- *)
\* longest input array handed to analyzePackets
MaxPackets == 6
\* longest `fields` array of an inference response
MaxRespFields == 2
\* largest positive maxConcurrency option tried
MaxOption == 3

(* --------------------------- JavaScript values ------------------------- *)
JsNull == [tag |-> "null"]
Undefined == [tag |-> "undefined"]
Num(n) == [tag |-> "number", v |-> n]

\* `a ?? b`: b when a is null or undefined
NullishCoalesce(a, b) == IF a = JsNull \/ a = Undefined THEN b ELSE a

Min(a, b) == IF a < b THEN a ELSE b
Max(a, b) == IF a > b THEN a ELSE b

SeqsUpTo(S, n) == UNION {[1..k -> S] : k \in 0..n}

(* ------------------------------ packets -------------------------------- *)
\* A PacketInfo, reduced to what the analyzer reads: its name, whether a
\* deserializeContext is present, and the names of its declared fields.
\* Packet names are numbered: name k stands for the k-th distinct class name.
Packet(n, ctx, fs) == [name |-> n, deserializeContext |-> ctx, fields |-> fs]

\* Input arrays of analyzePackets: n packets whose names repeat with period m
\* (m >= n: all names distinct) and of which the ones in S carry no context.
MakeInput(n, m, S) ==
  [i \in 1..n |-> Packet(((i - 1) % m) + 1, i \notin S, <<"id">>)]

\* all packets share one name, names alternate, all names differ
NamePeriods == {1, 2, MaxPackets}

\* every packet carries a context, or all but one
NoContextSets == {{}} \cup {{i} : i \in 1..MaxPackets}

Inputs ==
  {MakeInput(n, m, S) : n \in 0..MaxPackets, m \in NamePeriods, S \in NoContextSets}

\* Packets handed to analyzePacket directly.
DirectPackets ==
  {Packet(1, ctx, fs) : ctx \in BOOLEAN, fs \in {<<"id">>, <<"id", "name">>}}

(* ------------------------- inference responses ------------------------- *)
\* The encoding strings the system prompt lists ("Use these encoding strings"),
\* the parameterised ones with the parameters of the prompt's examples.
EncodingVocabulary ==
  {"byte", "int8", "int16_le", "int32_le", "int64_le", "float32_le", "float64_le",
   "varint", "uuid", "fixed_string:16", "var_string:ascii", "var_string:utf8",
   "array:int32_le", "nested:HostAddress", "offset_pointer"}

FieldNames == {"id", "name"}
\* encoding: z.string() -- one string of the prompt's list and one that is not
Encodings == {"int32_le", "string"}
NullBitValues == {1, 2, 3}

\* z.object({name, wireOffset, wireSize, encoding, isVariable, nullBit, notes})
FieldLayoutSchema ==
  [name : FieldNames,
   wireOffset : {Num(0)},
   wireSize : {Num(4)},
   encoding : Encodings,
   isVariable : {FALSE},
   nullBit : {JsNull} \cup {Num(b) : b \in NullBitValues},
   notes : {JsNull}]

\* z.object({bit, fieldName})
NullBitMappingEntry == [bit : {"1", "2"}, fieldName : FieldNames]

\* z.object({fields, totalFixedSize, hasVariableSection, variableSectionStart,
\*           nullBitMappings, notes})
LayoutAnalysisSchema ==
  [fields : SeqsUpTo(FieldLayoutSchema, MaxRespFields),
   totalFixedSize : {Num(4)},
   hasVariableSection : {FALSE},
   variableSectionStart : {JsNull},
   nullBitMappings : {<<>>},
   notes : {JsNull}]

\* The response the service gives for the i-th packet of a batch input: a
\* conforming object that differs from packet to packet.
BatchResponse(i) ==
  [fields |-> <<>>,
   totalFixedSize |-> Num(i),
   hasVariableSection |-> FALSE,
   variableSectionStart |-> JsNull,
   nullBitMappings |-> <<>>,
   notes |-> JsNull]

\* What `await generateText(...)` can come to.
Error == [kind |-> "error"]
NoOutput == [kind |-> "nooutput"]
Output(r) == [kind |-> "output", output |-> r]

DirectOutcomes == {Error, NoOutput} \cup {Output(r) : r \in LayoutAnalysisSchema}
BatchOutcomes(i) == {Error, NoOutput, Output(BatchResponse(i))}

(* ----------------------------- constructor ----------------------------- *)
DefaultMaxConcurrency == 5

\* options.maxConcurrency values tried: absent, 0, negative, positive
OptionValues == {Undefined} \cup {Num(k) : k \in -1..MaxOption}

\* a constructor without the `|| 5`: an absent option puts no limit on a batch
constructorNoDefault(opts) ==
  IF opts.maxConcurrency = Undefined THEN MaxPackets + 1 ELSE opts.maxConcurrency.v

\* this.maxConcurrency = options.maxConcurrency || 5
constructor(opts) ==
  IF opts.maxConcurrency = Undefined \/ opts.maxConcurrency = Num(0)
  THEN DefaultMaxConcurrency
  ELSE opts.maxConcurrency.v

(* --------------------------- normalizeLayout --------------------------- *)
RECURSIVE foldNullBitMappingsFirstWins(_, _)
\* a fold that keeps the first field name seen for a bit
foldNullBitMappingsFirstWins(entries, acc) ==
  IF entries = <<>> THEN acc
  ELSE LET e == Head(entries)
       IN foldNullBitMappingsFirstWins(Tail(entries),
            IF e.bit \in DOMAIN acc THEN acc ELSE (e.bit :> e.fieldName) @@ acc)

RECURSIVE foldNullBitMappings(_, _)
\* for (const entry of parsed.nullBitMappings) nullBitMapping[entry.bit] = entry.fieldName
foldNullBitMappings(entries, acc) ==
  IF entries = <<>> THEN acc
  ELSE LET e == Head(entries)
           rest == [b \in DOMAIN acc \ {e.bit} |-> acc[b]]
       IN foldNullBitMappings(Tail(entries), (e.bit :> e.fieldName) @@ rest)

normalizeField(field) ==
  [name |-> field.name,
   wireOffset |-> field.wireOffset,
   wireSize |-> field.wireSize,
   encoding |-> field.encoding,
   isVariable |-> field.isVariable,
   nullBit |-> NullishCoalesce(field.nullBit, Undefined),
   notes |-> NullishCoalesce(field.notes, Undefined)]

normalizeLayout(parsed, packet) ==
  [packetName |-> packet.name,
   fields |-> [i \in DOMAIN parsed.fields |-> normalizeField(parsed.fields[i])],
   totalFixedSize |-> parsed.totalFixedSize,
   hasVariableSection |-> parsed.hasVariableSection,
   variableSectionStart |-> NullishCoalesce(parsed.variableSectionStart, Undefined),
   nullBitMapping |-> IF Len(parsed.nullBitMappings) > 0
                      THEN [tag |-> "record",
                            map |-> foldNullBitMappings(parsed.nullBitMappings, <<>>)]
                      ELSE Undefined,
   notes |-> NullishCoalesce(parsed.notes, Undefined)]

(* ----------------------------- analyzePacket --------------------------- *)
Return(v) == [type |-> "return", value |-> v]
Throw == [type |-> "throw"]

\* if (!packet.deserializeContext) return null;  -- otherwise a request is made
analyzePacketRequests(packet) == packet.deserializeContext

\* analyzePacket without its try/catch: an error of the request escapes
analyzePacketSettleNoCatch(packet, outcome) ==
  CASE outcome.kind = "error" -> Throw
    [] outcome.kind = "nooutput" -> Return(JsNull)
    [] outcome.kind = "output" -> Return(normalizeLayout(outcome.output, packet))

\* How analyzePacket completes once its request has come to `outcome`:
\* try { result = await generateText(...); if (!result.output) return null;
\*       return this.normalizeLayout(result.output, packet) } catch { return null }
analyzePacketSettle(packet, outcome) ==
  CASE outcome.kind = "error" -> Return(JsNull)
    [] outcome.kind = "nooutput" -> Return(JsNull)
    [] outcome.kind = "output" -> Return(normalizeLayout(outcome.output, packet))

(* ------------------------------- state --------------------------------- *)
VARIABLES
  options,         \* the LayoutAnalyzerOptions the analyzer was built with
  maxConcurrency,  \* this.maxConcurrency
  pc,              \* "idle", then analyzePackets: "loop" | "await" | "done" | "rejected"
                   \*         or analyzePacket: "request" | "returned" | "thrown"
  packets,         \* the argument: the input array (one packet for analyzePacket)
  queue,           \* analyzePackets: indices into packets still to be scheduled
  total,           \* analyzePackets: queue.length at the start
  completed,       \* analyzePackets: progress counter
  batch,           \* analyzePackets: the group being awaited (indices into packets)
  settled,         \* analyzePackets: per member of batch, the state of its promise
  results,         \* analyzePackets: the name -> LayoutAnalysis map
  returned,        \* analyzePacket: the value returned
  requests,        \* history: inference requests issued so far, per packet index
  groups,          \* history: the first MaxGroups batches started, in order
  outcomes         \* history: what each packet's request came to

analyzerVars == <<options, maxConcurrency, pc, packets, queue, total, completed,
                  batch, settled, results, returned, requests, groups, outcomes>>

\* normalizeLayout, applied on its own
VARIABLES
  normalizeInput,  \* the arguments: [parsed, packet]
  normalized       \* the LayoutAnalysis returned

normalizeVars == <<normalizeInput, normalized>>

\* the extraction of one declaration of a parsed source file
VARIABLES
  declaration,     \* the syntax node: a class_declaration or an enum_declaration
  extracted,       \* the PacketInfo or EnumInfo extracted from it
  fieldSource      \* history: where extractFields took the packet's fields from

extractVars == <<declaration, extracted, fieldSource>>

\* one run of parseAll over a source tree
VARIABLES
  sourceTree,          \* the files under the root directory
  phase,               \* where parseAll is
  todo,                \* the files the running scan has still to hand over
  enums,               \* this.enums
  dataClasses,         \* this.dataClasses
  packetsByCategory,   \* the map parsePackets builds
  reads,               \* history: <<pass, file>> for every readFileSync
  primaryEnums,        \* history: this.enums when parseProtocolEntities returned
  previous             \* history: what the parser's previous parseAll returned

parseVars == <<sourceTree, phase, todo, enums, dataClasses, packetsByCategory, reads,
               primaryEnums, previous>>

\* the wiki generators that write into one output directory, one after the other
VARIABLES
  generator,           \* the client's position: "none" | "constructed" | "generated"
  version,             \* this.version
  layouts,             \* this.layouts
  homeFile,            \* Home.md of the output directory
  sidebarFile,         \* _Sidebar.md of the output directory
  pages,               \* the pages of each version in the output directory
  runs,                \* history: the versions generate has run for, in order
  documented           \* history: the packetsByCategory of the last generate

wikiVars == <<generator, version, layouts, homeFile, sidebarFile, pages, runs, documented>>

vars == <<analyzerVars, normalizeVars, extractVars, parseVars, wikiVars>>

\* the value of a variable that the run at hand does not use
NotUsed == [tag |-> "unused"]
\* the value of a result that has not been produced yet
NotYet == [tag |-> "notyet"]

NormalizeUnused == normalizeInput = NotUsed /\ normalized = NotUsed
ExtractUnused == declaration = NotUsed /\ extracted = NotUsed /\ fieldSource = NotUsed
ParseUnused ==
  /\ sourceTree = NotUsed /\ phase = NotUsed /\ todo = NotUsed /\ enums = NotUsed
  /\ dataClasses = NotUsed /\ packetsByCategory = NotUsed /\ reads = NotUsed
  /\ primaryEnums = NotUsed /\ previous = NotUsed
WikiUnused ==
  /\ generator = NotUsed /\ version = NotUsed /\ layouts = NotUsed /\ homeFile = NotUsed
  /\ sidebarFile = NotUsed /\ pages = NotUsed /\ runs = NotUsed
  /\ documented = NotUsed
\* what the layout analyzer's actions leave alone
exceptAnalyzer == <<normalizeVars, extractVars, parseVars, wikiVars>>

NotAsked == [kind |-> "none"]

AnalyzerInit(optionValues) ==
  /\ options \in [maxConcurrency : optionValues]
  /\ maxConcurrency = constructor(options)
  /\ pc = "idle"
  /\ packets = <<>>
  /\ queue = <<>>
  /\ total = 0
  /\ completed = 0
  /\ batch = <<>>
  /\ settled = <<>>
  /\ results = <<>>
  /\ returned = Undefined
  /\ requests = <<>>
  /\ groups = <<>>
  /\ outcomes = <<>>

\* the state after construction, before the client calls a method
Init ==
  AnalyzerInit(OptionValues) /\ NormalizeUnused /\ ExtractUnused /\ ParseUnused /\ WikiUnused

\* a layout analyzer that is constructed and never called
AnalyzerUnused == AnalyzerInit({Undefined})

(* ---------------------------- analyzePackets --------------------------- *)
\* a filter that keeps every packet
filterContextAll(input, i) == [k \in 1..(Len(input) + 1 - i) |-> k + i - 1]

RECURSIVE filterContext(_, _)
\* packets.filter(p => p.deserializeContext), as indices into the input
filterContext(input, i) ==
  IF i > Len(input) THEN <<>>
  ELSE (IF input[i].deserializeContext THEN <<i>> ELSE <<>>)
       \o filterContext(input, i + 1)

\* a splice that hands out one element more than asked for
spliceRemovedOneMore(q, count) == SubSeq(q, 1, Min(Max(count + 1, 0), Len(q)))
\* a splice that leaves the last element it handed out in the queue
spliceRestKeepsLast(q, count) == SubSeq(q, Max(Min(Max(count, 0), Len(q)), 1), Len(q))

\* queue.splice(0, count): the removed prefix and what is left
spliceRemoved(q, count) == SubSeq(q, 1, Min(Max(count, 0), Len(q)))
spliceRest(q, count) == SubSeq(q, Min(Max(count, 0), Len(q)) + 1, Len(q))

\* the history of the batches holds the first MaxGroups of them: a loop that goes
\* on after that many iterations goes on without adding to it
MaxGroups == MaxPackets + 2

\* const results = new Map(); const queue = [...packets.filter(...)];
\* let completed = 0; const total = queue.length;
analyzePacketsCall(input) ==
  /\ pc = "idle"
  /\ packets' = input
  /\ queue' = filterContext(input, 1)
  /\ total' = Len(filterContext(input, 1))
  /\ completed' = 0
  /\ results' = <<>>
  /\ requests' = [i \in 1..Len(input) |-> 0]
  /\ outcomes' = [i \in 1..Len(input) |-> NotAsked]
  /\ groups' = <<>>
  /\ pc' = "loop"
  /\ UNCHANGED <<options, maxConcurrency, batch, settled, returned>>
  /\ UNCHANGED exceptAnalyzer

\* The promise of one member's callback.  `request` tells whether analyzePacket
\* made a request; name and layout are the value { name, layout } it is
\* fulfilled with.
Pending(n, req) == [state |-> "pending", request |-> req, name |-> n, layout |-> JsNull]
Fulfilled(n, req, l) == [state |-> "fulfilled", request |-> req, name |-> n, layout |-> l]
Rejected(n, req) == [state |-> "rejected", request |-> req, name |-> n, layout |-> JsNull]

\* while (queue.length > 0) { const batch = queue.splice(0, this.maxConcurrency);
\*   Promise.all(batch.map(async (packet) => { await this.analyzePacket(packet) ...
\* Every member's callback runs up to its first await: analyzePacket is entered
\* and, for a packet with a context, its request is made.
StartBatch ==
  /\ pc = "loop"
  /\ queue # <<>>
  /\ LET b == spliceRemoved(queue, maxConcurrency) IN
       /\ batch' = b
       /\ queue' = spliceRest(queue, maxConcurrency)
       /\ settled' = [j \in DOMAIN b |->
                        Pending(packets[b[j]].name, analyzePacketRequests(packets[b[j]]))]
       /\ requests' = [i \in DOMAIN requests |->
                         IF \E j \in DOMAIN b : b[j] = i /\ analyzePacketRequests(packets[i])
                         THEN requests[i] + 1 ELSE requests[i]]
       /\ groups' = IF Len(groups) < MaxGroups THEN Append(groups, b) ELSE groups
  /\ pc' = "await"
  /\ UNCHANGED <<options, maxConcurrency, packets, total, completed, results,
                 returned, outcomes>>
  /\ UNCHANGED exceptAnalyzer

\* One member's analyzePacket completes and its callback continues:
\* completed++; return { name: packet.name, layout }
Resolve(j) ==
  /\ pc \in {"await", "rejected"}
  /\ j \in DOMAIN settled
  /\ settled[j].state = "pending"
  /\ \E outcome \in IF settled[j].request THEN BatchOutcomes(batch[j]) ELSE {NotAsked} :
       LET packet == packets[batch[j]]
           done == IF settled[j].request
                   THEN analyzePacketSettle(packet, outcome)
                   ELSE Return(JsNull)
       IN /\ outcomes' = [outcomes EXCEPT ![batch[j]] = outcome]
          /\ IF done.type = "return"
             THEN /\ settled' = [settled EXCEPT
                                   ![j] = Fulfilled(packet.name, settled[j].request, done.value)]
                  /\ completed' = completed + 1
                  /\ pc' = pc
             ELSE \* the callback rejects, and Promise.all with it
                  /\ settled' = [settled EXCEPT
                                   ![j] = Rejected(packet.name, settled[j].request)]
                  /\ completed' = completed
                  /\ pc' = "rejected"
  /\ UNCHANGED <<options, maxConcurrency, packets, queue, total, batch, results,
                 returned, requests, groups>>
  /\ UNCHANGED exceptAnalyzer

RECURSIVE mergeBatchResultsStopAtNull(_, _, _)
\* a merge loop that gives up at the first member without a layout
mergeBatchResultsStopAtNull(batchResults, j, acc) ==
  IF j > Len(batchResults) \/ batchResults[j].layout = JsNull THEN acc
  ELSE LET r == batchResults[j]
           rest == [n \in DOMAIN acc \ {r.name} |-> acc[n]]
       IN mergeBatchResultsStopAtNull(batchResults, j + 1, (r.name :> r.layout) @@ rest)

RECURSIVE mergeBatchResultsFirstWins(_, _, _)
\* a merge loop that keeps the entry a name already has
mergeBatchResultsFirstWins(batchResults, j, acc) ==
  IF j > Len(batchResults) THEN acc
  ELSE LET r == batchResults[j]
       IN mergeBatchResultsFirstWins(batchResults, j + 1,
            IF r.layout # JsNull /\ r.name \notin DOMAIN acc
            THEN (r.name :> r.layout) @@ acc ELSE acc)

RECURSIVE mergeBatchResults(_, _, _)
\* for (const { name, layout } of batchResults) if (layout) results.set(name, layout)
mergeBatchResults(batchResults, j, acc) ==
  IF j > Len(batchResults) THEN acc
  ELSE LET r == batchResults[j]
           rest == [n \in DOMAIN acc \ {r.name} |-> acc[n]]
       IN mergeBatchResults(batchResults, j + 1,
            IF r.layout # JsNull THEN (r.name :> r.layout) @@ rest ELSE acc)

\* a wait that ends as soon as one member is fulfilled
allSettledAny(s) == s = <<>> \/ \E j \in DOMAIN s : s[j].state = "fulfilled"

\* Promise.all(...) is fulfilled once every member is
allSettled(s) == \A j \in DOMAIN s : s[j].state = "fulfilled"

\* the await of Promise.all returns; the group's results are merged
Merge ==
  /\ pc = "await"
  /\ allSettled(settled)
  /\ results' = mergeBatchResults(settled, 1, results)
  /\ batch' = <<>>
  /\ settled' = <<>>
  /\ pc' = "loop"
  /\ UNCHANGED <<options, maxConcurrency, packets, queue, total, completed,
                 returned, requests, groups, outcomes>>
  /\ UNCHANGED exceptAnalyzer

\* queue.length === 0: return results
analyzePacketsReturn ==
  /\ pc = "loop"
  /\ queue = <<>>
  /\ pc' = "done"
  /\ UNCHANGED <<options, maxConcurrency, packets, queue, total, completed, batch,
                 settled, results, returned, requests, groups, outcomes>>
  /\ UNCHANGED exceptAnalyzer

(* ------------------------ analyzePacket, called alone ------------------ *)
analyzePacketCall(packet) ==
  /\ pc = "idle"
  /\ packets' = <<packet>>
  /\ outcomes' = <<NotAsked>>
  /\ IF analyzePacketRequests(packet)
     THEN /\ requests' = <<1>>
          /\ pc' = "request"
          /\ returned' = returned
     ELSE /\ requests' = <<0>>
          /\ pc' = "returned"
          /\ returned' = JsNull
  /\ UNCHANGED <<options, maxConcurrency, queue, total, completed, batch, settled,
                 results, groups>>
  /\ UNCHANGED exceptAnalyzer

analyzePacketResolve ==
  /\ pc = "request"
  /\ \E outcome \in DirectOutcomes :
       LET done == analyzePacketSettle(packets[1], outcome) IN
         /\ outcomes' = <<outcome>>
         /\ IF done.type = "return"
            THEN pc' = "returned" /\ returned' = done.value
            ELSE pc' = "thrown" /\ returned' = returned
  /\ UNCHANGED <<options, maxConcurrency, packets, queue, total, completed, batch,
                 settled, results, requests, groups>>
  /\ UNCHANGED exceptAnalyzer

Next ==
  \/ \E input \in Inputs : analyzePacketsCall(input)
  \/ StartBatch
  \/ \E j \in 1..MaxPackets : Resolve(j)
  \/ Merge
  \/ analyzePacketsReturn
  \/ \E packet \in DirectPackets : analyzePacketCall(packet)
  \/ analyzePacketResolve

Spec == Init /\ [][Next]_vars

\* The run under fair scheduling: the event loop runs every continuation that is
\* ready, and every inference call resolves in the end.
Fairness ==
  /\ WF_vars(StartBatch)
  /\ WF_vars(\E j \in 1..MaxPackets : Resolve(j))
  /\ WF_vars(Merge)
  /\ WF_vars(analyzePacketsReturn)
  /\ WF_vars(analyzePacketResolve)
SpecFair == Spec /\ Fairness

(* ---------------------- normalizeLayout on its own --------------------- *)
\* longest `fields` array normalizeLayout is applied to
MaxNormFields == 2
\* longest `nullBitMappings` array normalizeLayout is applied to
MaxMappings == 2

Str(t) == [tag |-> "string", s |-> t]

\* a fixed-block field and a variable-block field with a note
FieldShapes ==
  {[wireOffset |-> Num(0), wireSize |-> Num(4), encoding |-> "int32_le",
    isVariable |-> FALSE, notes |-> JsNull],
   [wireOffset |-> Num(-1), wireSize |-> Num(-1), encoding |-> "var_string:ascii",
    isVariable |-> TRUE, notes |-> Str("note")]}

\* members of FieldLayoutSchema in which every property varies
ParsedFields ==
  {[name |-> n, wireOffset |-> sh.wireOffset, wireSize |-> sh.wireSize,
    encoding |-> sh.encoding, isVariable |-> sh.isVariable, nullBit |-> nb,
    notes |-> sh.notes] : n \in FieldNames, sh \in FieldShapes, nb \in {JsNull, Num(1)}}

\* the properties of LayoutAnalysisSchema besides the two arrays
ParsedHeaders ==
  {[totalFixedSize |-> Num(4), hasVariableSection |-> FALSE,
    variableSectionStart |-> JsNull, notes |-> JsNull],
   [totalFixedSize |-> Num(9), hasVariableSection |-> TRUE,
    variableSectionStart |-> Num(9), notes |-> JsNull],
   [totalFixedSize |-> Num(9), hasVariableSection |-> TRUE,
    variableSectionStart |-> JsNull, notes |-> Str("note")]}

\* members of LayoutAnalysisSchema handed to normalizeLayout
ParsedLayouts ==
  {[fields |-> fs, totalFixedSize |-> h.totalFixedSize,
    hasVariableSection |-> h.hasVariableSection,
    variableSectionStart |-> h.variableSectionStart,
    nullBitMappings |-> ms, notes |-> h.notes] :
     fs \in SeqsUpTo(ParsedFields, MaxNormFields),
     ms \in SeqsUpTo(NullBitMappingEntry, MaxMappings),
     h \in ParsedHeaders}

InitNormalize ==
  /\ AnalyzerUnused
  /\ ExtractUnused
  /\ ParseUnused
  /\ WikiUnused
  /\ normalizeInput \in [parsed : ParsedLayouts,
                         packet : {Packet(n, TRUE, <<"id">>) : n \in 1..2}]
  /\ normalized = NotYet

\* this.normalizeLayout(result.output, packet)
normalizeLayoutCall ==
  /\ normalized = NotYet
  /\ normalized' = normalizeLayout(normalizeInput.parsed, normalizeInput.packet)
  /\ UNCHANGED <<analyzerVars, normalizeInput, extractVars, parseVars, wikiVars>>

NextNormalize == normalizeLayoutCall

SpecNormalize == InitNormalize /\ [][NextNormalize]_vars

(* ------------------- parser.ts: syntax nodes of a source file ------------------ *)
\* the largest number of members in a class body
MaxMembers == 3
\* the largest number of constants in an enum body
MaxConstants == 3

\* Source text that the parser converts to a number is a sequence of characters.
Text(chars) == chars
NoText == <<>>

\* parseInt's result when the text does not start with a number
NaN == [tag |-> "NaN"]
isNaN(x) == x = NaN

HexLower == <<"0", "1", "2", "3", "4", "5", "6", "7", "8", "9", "a", "b", "c", "d", "e", "f">>
HexUpper == <<"0", "1", "2", "3", "4", "5", "6", "7", "8", "9", "A", "B", "C", "D", "E", "F">>
IsDigit(c, radix) == \E d \in 1..radix : HexLower[d] = c \/ HexUpper[d] = c
DigitValue(c) == (CHOOSE d \in 1..16 : HexLower[d] = c \/ HexUpper[d] = c) - 1

RECURSIVE TrimStart(_)
TrimStart(t) == IF t # <<>> /\ Head(t) = " " THEN TrimStart(Tail(t)) ELSE t

RECURSIVE LeadingDigits(_, _)
LeadingDigits(t, radix) ==
  IF t = <<>> \/ ~IsDigit(Head(t), radix) THEN <<>>
  ELSE <<Head(t)>> \o LeadingDigits(Tail(t), radix)

RECURSIVE DigitsValue(_, _)
DigitsValue(z, radix) ==
  IF z = <<>> THEN 0
  ELSE DigitsValue(SubSeq(z, 1, Len(z) - 1), radix) * radix + DigitValue(z[Len(z)])

\* JavaScript's parseInt(text) without a radix: leading white space is dropped, a
\* sign is read, a 0x prefix selects radix 16, and the longest run of digits that
\* follows is the number; whatever comes after the digits is ignored.
parseInt(text) ==
  LET trimmed == TrimStart(text)
      signed == trimmed # <<>> /\ Head(trimmed) \in {"+", "-"}
      sign == IF trimmed # <<>> /\ Head(trimmed) = "-" THEN -1 ELSE 1
      unsigned == IF signed THEN Tail(trimmed) ELSE trimmed
      hex == Len(unsigned) >= 2 /\ unsigned[1] = "0" /\ unsigned[2] \in {"x", "X"}
      radix == IF hex THEN 16 ELSE 10
      rest == IF hex THEN SubSeq(unsigned, 3, Len(unsigned)) ELSE unsigned
      z == LeadingDigits(rest, radix)
  IN IF z = <<>> THEN NaN ELSE Num(sign * DigitsValue(z, radix))

FormalParameter(mods, t, n) ==
  [type |-> "formal_parameter", modifiers |-> mods, javaType |-> t, name |-> n]
SpreadParameter(mods, t, n) ==
  [type |-> "spread_parameter", modifiers |-> mods, javaType |-> t, name |-> n]
\* parentClass is the name of the nearest enclosing class_declaration (findParentClass)
ConstructorDeclaration(owner, params) ==
  [type |-> "constructor_declaration", parentClass |-> owner, parameters |-> params]
FieldDeclaration(mods, t, n, v) ==
  [type |-> "field_declaration", modifiers |-> mods, javaType |-> t, name |-> n, value |-> v]
MethodDeclaration(n) == [type |-> "method_declaration", name |-> n]
EnumConstant(n, hasArgs, args) ==
  [type |-> "enum_constant", name |-> n, hasArguments |-> hasArgs, arguments |-> args]
\* body is the body's subtree in the order traverseTree visits it (preorder), so
\* the members of a nested class follow the members before it
ClassDeclaration(n, b) == [type |-> "class_declaration", name |-> n, body |-> b]
EnumDeclaration(n, b) == [type |-> "enum_declaration", name |-> n, body |-> b]

\* modText.includes(word)
Includes(node, word) == word \in node.modifiers

\* The members a class body of class Ping is drawn from.
Members ==
  { FieldDeclaration({"private"}, "int", "a", NoText),
    FieldDeclaration({"@Nullable", "private"}, "String", "b", NoText),
    FieldDeclaration({"public", "static", "final"}, "int", "PACKET_ID", Text(<<"7">>)),
    FieldDeclaration({"public", "static", "final"}, "int", "PACKET_ID",
                     Text(<<"9", " ", "+", " ", "1">>)),
    FieldDeclaration({"public", "static"}, "int", "PACKET_ID", Text(<<"5">>)),
    FieldDeclaration({"public", "static", "final"}, "boolean", "IS_COMPRESSED",
                     Text(<<"t", "r", "u", "e">>)),
    FieldDeclaration({"public", "static", "final"}, "int", "MAX_SIZE", Text(<<"F", "O", "O">>)),
    ConstructorDeclaration("Ping", <<>>),
    ConstructorDeclaration("Ping", <<FormalParameter({}, "Ping", "other")>>),
    ConstructorDeclaration("Ping", <<FormalParameter({}, "int", "a")>>),
    ConstructorDeclaration("Ping", <<FormalParameter({"@Nullable"}, "String", "b"),
                                     FormalParameter({}, "int", "a")>>),
    ConstructorDeclaration("Ping", <<FormalParameter({}, "int", "a"),
                                     SpreadParameter({}, "String", "rest")>>),
    ConstructorDeclaration("Ping", <<SpreadParameter({}, "String", "rest")>>),
    ConstructorDeclaration("Inner", <<FormalParameter({}, "int", "x"),
                                      FormalParameter({}, "int", "y"),
                                      FormalParameter({}, "int", "z")>>),
    MethodDeclaration("deserialize"),
    MethodDeclaration("serialize") }

ClassNodes == {ClassDeclaration("Ping", b) : b \in SeqsUpTo(Members, MaxMembers)}

\* The argument lists an enum constant is drawn from: none, an empty list, one
\* argument of each kind, and two lists of two arguments.
ArgumentTexts ==
  { Text(<<"3">>), Text(<<"1", "2">>), Text(<<"-", "1">>), Text(<<"0", "x", "1", "0">>),
    Text(<<"2", ".", "5", "f">>), Text(<<"F", "O", "O">>), Text(<<"\"", "4", "\"">>) }
ArgumentLists ==
  {<<>>} \cup {<<t>> : t \in ArgumentTexts}
    \cup {<<Text(<<"F", "O", "O">>), Text(<<"3">>)>>, <<Text(<<"5">>), Text(<<"F", "O", "O">>)>>}
EnumConstants ==
  {EnumConstant("A", FALSE, <<>>)} \cup {EnumConstant("B", TRUE, args) : args \in ArgumentLists}
EnumNodes ==
  {EnumDeclaration(n, b) : n \in {"", "Mode"}, b \in SeqsUpTo(EnumConstants, MaxConstants)}

(* ----------------------- parser.ts: extraction of the entities ------------------ *)
FieldInfo(n, t, nullable) ==
  [name |-> n, javaType |-> t, nullable |-> nullable, isVariable |-> FALSE, encoding |-> ""]

extractFieldInfo(node) == FieldInfo(node.name, node.javaType, Includes(node, "@Nullable"))

\* params.namedChildren.filter(formal_parameter or spread_parameter).length
paramCount(ctor) ==
  Cardinality({k \in DOMAIN ctor.parameters :
                 ctor.parameters[k].type \in {"formal_parameter", "spread_parameter"}})
FormalParameters(ctor) ==
  {k \in DOMAIN ctor.parameters : ctor.parameters[k].type = "formal_parameter"}

isCopyConstructorNever(ctor) == FALSE
\* a single parameter whose first formal parameter has the enclosing class's type
isCopyConstructor(ctor) ==
  /\ paramCount(ctor) = 1
  /\ FormalParameters(ctor) # {}
  /\ LET firstParam == ctor.parameters[CHOOSE k \in FormalParameters(ctor) :
                                         \A j \in FormalParameters(ctor) : k <= j]
     IN firstParam.javaType = ctor.parentClass

\* The traversal that picks bestConstructor: the index in the body of the first
\* constructor, copy constructors skipped, with more parameters than every one
\* before it; 0 stands for null.  best is <<maxParams, bestConstructor>>.
RECURSIVE pickBestConstructor(_, _, _)
pickBestConstructor(body, k, best) ==
  IF k > Len(body) THEN best[2]
  ELSE IF /\ body[k].type = "constructor_declaration"
          /\ ~isCopyConstructor(body[k])
          /\ paramCount(body[k]) > best[1]
       THEN pickBestConstructor(body, k + 1, <<paramCount(body[k]), k>>)
       ELSE pickBestConstructor(body, k + 1, best)
bestConstructor(body) == pickBestConstructor(body, 1, <<0, 0>>)

RECURSIVE parameterFields(_, _)
parameterFields(params, k) ==
  IF k > Len(params) THEN <<>>
  ELSE (IF params[k].type = "formal_parameter"
        THEN <<FieldInfo(params[k].name, params[k].javaType, Includes(params[k], "@Nullable"))>>
        ELSE <<>>) \o parameterFields(params, k + 1)

extractFieldsFromConstructor(body) ==
  IF bestConstructor(body) = 0 THEN <<>>
  ELSE parameterFields(body[bestConstructor(body)].parameters, 1)

RECURSIVE declaredFields(_, _)
declaredFields(body, k) ==
  IF k > Len(body) THEN <<>>
  ELSE (IF body[k].type = "field_declaration" /\ ~Includes(body[k], "static")
        THEN <<extractFieldInfo(body[k])>>
        ELSE <<>>) \o declaredFields(body, k + 1)

extractFields(body) ==
  IF Len(extractFieldsFromConstructor(body)) > 0
  THEN extractFieldsFromConstructor(body)
  ELSE declaredFields(body, 1)

\* where extractFields took the fields from
FromConstructor(k) == [kind |-> "constructor", index |-> k]
FromDeclarations == [kind |-> "declarations", index |-> 0]
NoFields == [kind |-> "none", index |-> 0]
extractFieldsSource(body) ==
  IF Len(extractFieldsFromConstructor(body)) > 0
  THEN FromConstructor(bestConstructor(body))
  ELSE FromDeclarations

ConstantNames ==
  [PACKET_ID |-> "packetId", NULLABLE_BIT_FIELD_SIZE |-> "nullableBitFieldSize",
   FIXED_BLOCK_SIZE |-> "fixedBlockSize", VARIABLE_FIELD_COUNT |-> "variableFieldCount",
   VARIABLE_BLOCK_START |-> "variableBlockStart", MAX_SIZE |-> "maxSize"]

isStaticFinalAlways(node) == TRUE
\* modText.includes('static') && modText.includes('final')
isStaticFinal(node) == Includes(node, "static") /\ Includes(node, "final")

\* the callback of extractConstants on one node of the body
extractConstant(node, packet) ==
  IF /\ node.type = "field_declaration"
     /\ isStaticFinal(node)
     /\ node.name # "" /\ node.value # NoText
  THEN IF node.name = "IS_COMPRESSED"
       THEN [packet EXCEPT !.isCompressed = (node.value = Text(<<"t", "r", "u", "e">>))]
       ELSE IF ~isNaN(parseInt(node.value)) /\ node.name \in DOMAIN ConstantNames
            THEN [packet EXCEPT ![ConstantNames[node.name]] = parseInt(node.value)]
            ELSE packet
  ELSE packet

RECURSIVE extractConstants(_, _, _)
extractConstants(body, k, packet) ==
  IF k > Len(body) THEN packet
  ELSE extractConstants(body, k + 1, extractConstant(body[k], packet))

extractLayoutAlways(body) == TRUE
\* extractLayout: the context is attached when the body has a method named deserialize
extractLayout(body) ==
  \E k \in DOMAIN body : body[k].type = "method_declaration" /\ body[k].name = "deserialize"

extractPacketInfo(node, category) ==
  LET packet == [name |-> IF node.name = "" THEN "Unknown" ELSE node.name,
                 category |-> category,
                 packetId |-> Undefined,
                 isCompressed |-> FALSE,
                 nullableBitFieldSize |-> Num(0),
                 fixedBlockSize |-> Num(0),
                 variableFieldCount |-> Num(0),
                 variableBlockStart |-> Num(0),
                 maxSize |-> Num(0),
                 fields |-> <<>>,
                 isEnum |-> FALSE,
                 isDataClass |-> FALSE,
                 deserializeContext |-> FALSE]
  IN [extractConstants(node.body, 1, packet)
        EXCEPT !.fields = extractFields(node.body),
               !.deserializeContext = extractLayout(node.body)]

\* the value of one enum constant: values.length unless the first argument's text
\* gives a number
enumValue(constant, index) ==
  IF /\ constant.hasArguments
     /\ constant.arguments # <<>>
     /\ ~isNaN(parseInt(constant.arguments[1]))
  THEN parseInt(constant.arguments[1])
  ELSE Num(index)

RECURSIVE enumValues(_, _, _)
enumValues(body, k, values) ==
  IF k > Len(body) THEN values
  ELSE IF body[k].type = "enum_constant" /\ body[k].name # ""
       THEN enumValues(body, k + 1,
                       Append(values, [name |-> body[k].name,
                                       value |-> enumValue(body[k], Len(values))]))
       ELSE enumValues(body, k + 1, values)

extractEnumInfo(node, category, relPath) ==
  IF node.name = "" THEN JsNull
  ELSE [name |-> node.name, category |-> category, sourcePath |-> relPath,
        values |-> enumValues(node.body, 1, <<>>)]

RECURSIVE allDeclaredFields(_, _)
allDeclaredFields(body, k) ==
  IF k > Len(body) THEN <<>>
  ELSE (IF body[k].type = "field_declaration" THEN <<extractFieldInfo(body[k])>> ELSE <<>>)
         \o allDeclaredFields(body, k + 1)

extractDataClassInfo(node, category, relPath) ==
  IF node.name = "" THEN JsNull
  ELSE [name |-> node.name, category |-> category, sourcePath |-> relPath,
        fields |-> allDeclaredFields(node.body, 1)]

(* --------------------- extraction of one declaration on its own ----------------- *)
InitExtract ==
  /\ AnalyzerUnused
  /\ NormalizeUnused
  /\ ParseUnused
  /\ WikiUnused
  /\ declaration \in ClassNodes \cup EnumNodes
  /\ extracted = NotYet
  /\ fieldSource = NotYet

extractPacketInfoCall ==
  /\ extracted = NotYet
  /\ declaration.type = "class_declaration"
  /\ extracted' = extractPacketInfo(declaration, <<"auth">>)
  /\ fieldSource' = extractFieldsSource(declaration.body)
  /\ UNCHANGED <<analyzerVars, normalizeVars, parseVars, wikiVars, declaration>>

extractEnumInfoCall ==
  /\ extracted = NotYet
  /\ declaration.type = "enum_declaration"
  /\ extracted' = extractEnumInfo(declaration, <<"auth">>, <<"auth">>)
  /\ fieldSource' = NoFields
  /\ UNCHANGED <<analyzerVars, normalizeVars, parseVars, wikiVars, declaration>>

NextExtract ==
  \/ extractPacketInfoCall
  \/ extractEnumInfoCall

SpecExtract == InitExtract /\ [][NextExtract]_vars

(* ------------------------ parser.ts: parseAll over a source tree ---------------- *)
\* the largest number of files in the source tree
MaxFiles == 3

\* A JavaScript Map: its entries in insertion order.
MapKeys(m) == {m[k].key : k \in DOMAIN m}
MapHas(m, key) == key \in MapKeys(m)
MapGet(m, key) == m[CHOOSE k \in DOMAIN m : m[k].key = key].value
MapSet(m, key, value) ==
  IF MapHas(m, key)
  THEN [k \in DOMAIN m |-> IF m[k].key = key THEN [key |-> key, value |-> value] ELSE m[k]]
  ELSE Append(m, [key |-> key, value |-> value])

\* A file of the tree: the directories from the root down to it, its name and
\* extension, what reading and parsing it does, and the class and enum
\* declarations of its content in document order.
File(dir, name, extension, status, declarations) ==
  [dir |-> dir, name |-> name, extension |-> extension, status |-> status,
   declarations |-> declarations]

\* The files a source tree is drawn from.  The packets directory of the root
\* exists in every tree; a directory exists where a file lies in it.
SourceFiles ==
  { File(<<>>, "Color", ".java", "ok",
         <<EnumDeclaration("Color", <<EnumConstant("A", FALSE, <<>>)>>)>>),
    File(<<>>, "README", ".md", "ok", <<>>),
    File(<<"world">>, "Foo", ".java", "ok",
         <<ClassDeclaration("Foo", <<FieldDeclaration({"private"}, "int", "a", NoText)>>)>>),
    File(<<"world">>, "FooPacket", ".java", "ok", <<ClassDeclaration("FooPacket", <<>>)>>),
    File(<<"world", "packets">>, "Shade", ".java", "ok", <<EnumDeclaration("Shade", <<>>)>>),
    File(<<"world">>, "Empty", ".java", "empty", <<>>),
    File(<<"world">>, "Locked", ".java", "unreadable", <<EnumDeclaration("Secret", <<>>)>>),
    File(<<"world">>, "Broken", ".java", "parse throws", <<ClassDeclaration("Hidden", <<>>)>>),
    File(<<"packets">>, "Foo", ".java", "ok",
         <<ClassDeclaration("Foo", <<ConstructorDeclaration("Foo", <<FormalParameter({}, "int", "a")>>),
                                     MethodDeclaration("deserialize")>>)>>),
    File(<<"packets", "auth">>, "Login", ".java", "ok",
         <<ClassDeclaration("Login", <<>>),
           EnumDeclaration("Color", <<EnumConstant("A", FALSE, <<>>),
                                      EnumConstant("B", TRUE, <<Text(<<"3">>)>>)>>)>>),
    File(<<"packets", "auth">>, "Mode", ".java", "ok", <<EnumDeclaration("Mode", <<>>)>>),
    File(<<"packets", "auth">>, "Pair", ".java", "ok",
         <<ClassDeclaration("First", <<>>), ClassDeclaration("Second", <<>>)>>),
    File(<<"packets", "auth">>, "Empty", ".java", "empty", <<>>),
    File(<<"packets", "auth">>, "Locked", ".java", "unreadable",
         <<ClassDeclaration("Hidden", <<>>), EnumDeclaration("Secret", <<>>)>>),
    File(<<"packets", "auth">>, "Broken", ".java", "no tree",
         <<ClassDeclaration("Hidden", <<>>), EnumDeclaration("Secret", <<>>)>>) }

\* the trees: up to MaxFiles different files, in the order readdirSync lists them
SourceTrees ==
  {t \in SeqsUpTo(SourceFiles, MaxFiles) : \A i, j \in DOMAIN t : t[i] = t[j] => i = j}

\* entry.endsWith('.java')
endsWithJava(file) == file.extension = ".java"
\* name.includes('Packet')
includesPacketNever(name) == FALSE
includesPacket(name) == name \in {"FooPacket"}
\* entry === 'packets'
isPacketsEntryNever(entry) == FALSE
isPacketsEntry(entry) == entry = "packets"

InDirectory(file, dir) ==
  Len(file.dir) >= Len(dir) /\ SubSeq(file.dir, 1, Len(dir)) = dir

\* The files a recursive directory scan hands to its file handler, in order: the
\* entries of dir are the files in it and the sub-directories that hold a file,
\* a sub-directory is entered where it is listed, and with skip set a directory
\* named packets is passed over (parseEntityDirectory).
RECURSIVE scanDirectory(_, _, _, _, _)
scanDirectory(tree, dir, skip, i, seen) ==
  IF i > Len(tree) THEN <<>>
  ELSE IF ~InDirectory(tree[i], dir) THEN scanDirectory(tree, dir, skip, i + 1, seen)
  ELSE IF tree[i].dir = dir
       THEN (IF endsWithJava(tree[i]) THEN <<i>> ELSE <<>>)
              \o scanDirectory(tree, dir, skip, i + 1, seen)
  ELSE LET entry == tree[i].dir[Len(dir) + 1]
       IN IF entry \in seen THEN scanDirectory(tree, dir, skip, i + 1, seen)
          ELSE (IF skip /\ isPacketsEntry(entry) THEN <<>>
                ELSE scanDirectory(tree, Append(dir, entry), skip, 1, {}))
                 \o scanDirectory(tree, dir, skip, i + 1, seen \cup {entry})

packetsDir == <<"packets">>
parseEntityDirectory(tree) == scanDirectory(tree, <<>>, TRUE, 1, {})
parsePacketDirectory(tree) == scanDirectory(tree, packetsDir, FALSE, 1, {})
parseEnumsFromPacketsDirectory(tree) == scanDirectory(tree, packetsDir, FALSE, 1, {})

\* relPath of a file under the directory a scan started in
relPath(file, start) == SubSeq(file.dir, Len(start) + 1, Len(file.dir))
\* relPath.replace(/\\/g, '/') || fallback
categoryOf(path, fallback) == IF path = <<>> THEN <<fallback>> ELSE path

\* The try block of a file handler up to the traversal: readFileSync throws, the
\* content is empty, parse throws or gives no tree, or the tree is traversed.
readAndParse(file) ==
  IF file.status \in {"unreadable", "parse throws"} THEN Throw
  ELSE IF file.status \in {"empty", "no tree"} THEN Return(<<>>)
  ELSE Return(file.declarations)
\* the catch clause of a file handler: the file yields nothing
rethrow(result) == result
catch(result) == IF result.type = "throw" THEN Return(<<>>) ELSE result

enumsHasNever(m, key) == FALSE
enumsHas(m, key) == MapHas(m, key)

\* the traversal of parseEntityFile; maps is <<enums, dataClasses>>
RECURSIVE registerEntities(_, _, _, _)
registerEntities(declarations, k, path, maps) ==
  IF k > Len(declarations) THEN maps
  ELSE LET node == declarations[k]
           enumInfo == extractEnumInfo(node, categoryOf(path, "root"), path)
           dataClassInfo == extractDataClassInfo(node, categoryOf(path, "root"), path)
       IN registerEntities(declarations, k + 1, path,
            IF node.type = "enum_declaration" /\ enumInfo # JsNull
            THEN <<MapSet(maps[1], enumInfo.name, enumInfo), maps[2]>>
            ELSE IF /\ node.type = "class_declaration"
                    /\ dataClassInfo # JsNull
                    /\ ~includesPacket(dataClassInfo.name)
                 THEN <<maps[1], MapSet(maps[2], dataClassInfo.name, dataClassInfo)>>
                 ELSE maps)

\* the traversal of parseEnumsFromFile
RECURSIVE registerEnums(_, _, _, _)
registerEnums(declarations, k, path, map) ==
  IF k > Len(declarations) THEN map
  ELSE LET node == declarations[k]
           enumInfo == extractEnumInfo(node, categoryOf(path, "root"), path)
       IN registerEnums(declarations, k + 1, path,
            IF /\ node.type = "enum_declaration"
               /\ enumInfo # JsNull
               /\ ~enumsHas(map, enumInfo.name)
            THEN MapSet(map, enumInfo.name, enumInfo)
            ELSE map)

\* a traversal that keeps the first class it meets
RECURSIVE firstPacketInfo(_, _, _, _)
firstPacketInfo(declarations, k, path, packetInfo) ==
  IF k > Len(declarations) THEN packetInfo
  ELSE firstPacketInfo(declarations, k + 1, path,
         IF /\ declarations[k].type = "class_declaration" /\ declarations[k].name # ""
            /\ packetInfo = JsNull
         THEN extractPacketInfo(declarations[k], categoryOf(path, "uncategorized"))
         ELSE packetInfo)

keepMap(old) == old
\* const packetsByCategory = new Map(): every parsePackets starts from an empty map
newMap(old) == <<>>

\* the traversal of parsePacketFile: every named class replaces packetInfo
RECURSIVE lastPacketInfo(_, _, _, _)
lastPacketInfo(declarations, k, path, packetInfo) ==
  IF k > Len(declarations) THEN packetInfo
  ELSE lastPacketInfo(declarations, k + 1, path,
         IF declarations[k].type = "class_declaration" /\ declarations[k].name # ""
         THEN extractPacketInfo(declarations[k], categoryOf(path, "uncategorized"))
         ELSE packetInfo)

InitParse ==
  /\ AnalyzerUnused
  /\ NormalizeUnused
  /\ ExtractUnused
  /\ WikiUnused
  /\ sourceTree \in SourceTrees
  /\ phase = "constructed"
  /\ todo = <<>>
  /\ enums = <<>>
  /\ dataClasses = <<>>
  /\ packetsByCategory = <<>>
  /\ reads = <<>>
  /\ primaryEnums = <<>>
  /\ previous = NotYet

exceptParse == <<analyzerVars, normalizeVars, extractVars, wikiVars, sourceTree>>

ParsedResults == [packetsByCategory |-> packetsByCategory, enums |-> enums,
                  dataClasses |-> dataClasses]

\* parseAll is called, on a new parser or once more on one that has returned:
\* parseProtocolEntities scans the root
parseProtocolEntities ==
  /\ \/ phase = "constructed" /\ previous' = previous
     \/ phase = "returned" /\ previous = NotYet /\ previous' = ParsedResults
  /\ phase' = "entities"
  /\ todo' = parseEntityDirectory(sourceTree)
  /\ reads' = <<>>
  /\ UNCHANGED <<enums, dataClasses, packetsByCategory, primaryEnums>>
  /\ UNCHANGED exceptParse

parseEntityFile ==
  /\ phase = "entities"
  /\ todo # <<>>
  /\ LET file == sourceTree[Head(todo)]
         result == catch(readAndParse(file))
     IN /\ reads' = Append(reads, <<"entities", Head(todo)>>)
        /\ IF result.type = "throw"
           THEN /\ phase' = "aborted"
                /\ UNCHANGED <<todo, enums, dataClasses>>
           ELSE LET maps == registerEntities(result.value, 1, relPath(file, <<>>),
                                             <<enums, dataClasses>>)
                IN /\ enums' = maps[1]
                   /\ dataClasses' = maps[2]
                   /\ todo' = Tail(todo)
                   /\ phase' = phase
  /\ UNCHANGED <<packetsByCategory, primaryEnums, previous>>
  /\ UNCHANGED exceptParse

\* parseProtocolEntities has returned: parsePackets scans the packets directory
parsePackets ==
  /\ phase = "entities"
  /\ todo = <<>>
  /\ phase' = "packets"
  /\ todo' = parsePacketDirectory(sourceTree)
  /\ primaryEnums' = enums
  /\ packetsByCategory' = newMap(packetsByCategory)
  /\ UNCHANGED <<enums, dataClasses, reads, previous>>
  /\ UNCHANGED exceptParse

parsePacketFile ==
  /\ phase = "packets"
  /\ todo # <<>>
  /\ LET file == sourceTree[Head(todo)]
         path == relPath(file, packetsDir)
         category == categoryOf(path, "uncategorized")
         result == catch(readAndParse(file))
     IN /\ reads' = Append(reads, <<"packets", Head(todo)>>)
        /\ IF result.type = "throw"
           THEN /\ phase' = "aborted"
                /\ UNCHANGED <<todo, packetsByCategory>>
           ELSE LET packet == lastPacketInfo(result.value, 1, path, JsNull)
                IN /\ packetsByCategory' =
                        IF packet = JsNull THEN packetsByCategory
                        ELSE MapSet(packetsByCategory, category,
                                    Append(IF MapHas(packetsByCategory, category)
                                           THEN MapGet(packetsByCategory, category)
                                           ELSE <<>>, packet))
                   /\ todo' = Tail(todo)
                   /\ phase' = phase
  /\ UNCHANGED <<enums, dataClasses, primaryEnums, previous>>
  /\ UNCHANGED exceptParse

\* parsePackets has returned: the packets directory is scanned again, for enums
parseEnumsFromPackets ==
  /\ phase = "packets"
  /\ todo = <<>>
  /\ phase' = "enums"
  /\ todo' = parseEnumsFromPacketsDirectory(sourceTree)
  /\ UNCHANGED <<enums, dataClasses, packetsByCategory, reads, primaryEnums, previous>>
  /\ UNCHANGED exceptParse

parseEnumsFromFile ==
  /\ phase = "enums"
  /\ todo # <<>>
  /\ LET file == sourceTree[Head(todo)]
         result == catch(readAndParse(file))
     IN /\ reads' = Append(reads, <<"enums", Head(todo)>>)
        /\ IF result.type = "throw"
           THEN /\ phase' = "aborted"
                /\ UNCHANGED <<todo, enums>>
           ELSE /\ enums' = registerEnums(result.value, 1, relPath(file, packetsDir), enums)
                /\ todo' = Tail(todo)
                /\ phase' = phase
  /\ UNCHANGED <<dataClasses, packetsByCategory, primaryEnums, previous>>
  /\ UNCHANGED exceptParse

parseAllReturn ==
  /\ phase = "enums"
  /\ todo = <<>>
  /\ phase' = "returned"
  /\ UNCHANGED <<todo, enums, dataClasses, packetsByCategory, reads, primaryEnums, previous>>
  /\ UNCHANGED exceptParse

NextParse ==
  \/ parseProtocolEntities
  \/ parseEntityFile
  \/ parsePackets
  \/ parsePacketFile
  \/ parseEnumsFromPackets
  \/ parseEnumsFromFile
  \/ parseAllReturn

SpecParse == InitParse /\ [][NextParse]_vars

(* ------------------- wiki-generator.ts: the pages of the wiki ------------------ *)
\* the largest number of generate runs into the output directory
MaxRuns == 2

\* A string that is read back character by character is the sequence of its
\* characters; a string that is only copied is a string.
RECURSIVE join(_)
\* lines.join('\n')
join(lines) ==
  IF lines = <<>> THEN <<>>
  ELSE IF Len(lines) = 1 THEN lines[1]
  ELSE lines[1] \o <<"\n">> \o join(Tail(lines))

\* the UTF-16 code unit of a character, which Array.prototype.sort compares
charCodeAt(c) ==
  CASE
       c = "\n" -> 10
    [] c = " " -> 32
    [] c = "#" -> 35
    [] c = "(" -> 40
    [] c = ")" -> 41
    [] c = "-" -> 45
    [] c = "." -> 46
    [] c = "/" -> 47
    [] c = "0" -> 48
    [] c = "1" -> 49
    [] c = "2" -> 50
    [] c = "A" -> 65
    [] c = "H" -> 72
    [] c = "V" -> 86
    [] c = "W" -> 87
    [] c = "[" -> 91
    [] c = "]" -> 93
    [] c = "a" -> 97
    [] c = "c" -> 99
    [] c = "d" -> 100
    [] c = "e" -> 101
    [] c = "h" -> 104
    [] c = "i" -> 105
    [] c = "l" -> 108
    [] c = "m" -> 109
    [] c = "n" -> 110
    [] c = "o" -> 111
    [] c = "r" -> 114
    [] c = "s" -> 115
    [] c = "t" -> 116
    [] c = "u" -> 117
    [] c = "v" -> 118
    [] c = "w" -> 119

RECURSIVE lessThan(_, _)
\* a < b for strings: the first differing code unit decides, a proper prefix is less
lessThan(a, b) ==
  IF b = <<>> THEN FALSE
  ELSE IF a = <<>> THEN TRUE
  ELSE IF Head(a) = Head(b) THEN lessThan(Tail(a), Tail(b))
  ELSE charCodeAt(Head(a)) < charCodeAt(Head(b))

RECURSIVE sort(_)
\* Array.from(set).sort()
sort(set) ==
  IF set = {} THEN <<>>
  ELSE LET least == CHOOSE x \in set : \A y \in set \ {x} : lessThan(x, y)
       IN <<least>> \o sort(set \ {least})

reverse(array) == [k \in DOMAIN array |-> array[Len(array) + 1 - k]]

\* page.replace(/ /g, '-')
pageName(page) == [k \in DOMAIN page |-> IF page[k] = " " THEN "-" ELSE page[k]]

\* a file of the output directory
NoFile == [exists |-> FALSE]
\* writeFileSync(path, lines.join('\n'))
writePage(lines) == [exists |-> TRUE, content |-> join(lines)]

\* the least member of a set of positions, or 0
first(positions) ==
  IF positions = {} THEN 0 ELSE CHOOSE k \in positions : \A j \in positions : k <= j

\* the first position at or after `from` that holds character c, or 0
indexOf(content, c, from) == first({k \in from..Len(content) : content[k] = c})

\* - [${version}](${this.pageName(`${version}-Home`)})
versionItem(v) ==
  <<"-", " ", "[">> \o v \o <<"]", "(">> \o pageName(v \o <<"-", "H", "o", "m", "e">>) \o <<")">>

\* /\[([^\]]+)\]\([^)]*-Home\)/ tried at position i: the group runs to the first
\* "]", which "(" must follow, and "-Home" must end at the first ")" after it
versionRegexHome(content, i) ==
  LET close == indexOf(content, "]", i + 1)
      paren == IF close = 0 THEN 0 ELSE indexOf(content, ")", close + 2)
  IN IF /\ content[i] = "["
        /\ close > i + 1
        /\ close < Len(content)
        /\ content[close + 1] = "("
        /\ paren >= close + 7
        /\ SubSeq(content, paren - 5, paren - 1) = <<"-", "H", "o", "m", "e">>
     THEN [matched |-> TRUE, group |-> SubSeq(content, i + 1, close - 1),
           lastIndex |-> paren + 1]
     ELSE [matched |-> FALSE]

RECURSIVE execHome(_, _)
\* while ((match = versionRegex.exec(content)) !== null) versions.add(match[1])
execHome(content, from) ==
  LET start == first({i \in from..Len(content) : versionRegexHome(content, i).matched})
      match == versionRegexHome(content, start)
  IN IF start = 0 THEN {}
     ELSE {match.group} \cup execHome(content, match.lastIndex)

parseExistingVersionsFromHome(file) ==
  IF file.exists THEN execHome(file.content, 1) ELSE {}

\* the lines generateRootHome pushes for a set of versions
rootHomeLines(versions) ==
  LET sortedVersions == reverse(sort(versions))
  IN << <<"#", " ", "H", "y", "t", "a", "l", "e", " ", "P", "r", "o", "t", "o", "c", "o", "l", " ", "D", "o", "c", "u", "m", "e", "n", "t", "a", "t", "i", "o", "n">>,
        <<>>,
        <<"W", "e", "l", "c", "o", "m", "e", " ", "t", "o", " ", "t", "h", "e", " ", "H", "y", "t", "a", "l", "e", " ", "p", "r", "o", "t", "o", "c", "o", "l", " ", "d", "o", "c", "u", "m", "e", "n", "t", "a", "t", "i", "o", "n", " ", "w", "i", "k", "i", ".">>,
        <<>>,
        <<"#", "#", " ", "A", "v", "a", "i", "l", "a", "b", "l", "e", " ", "V", "e", "r", "s", "i", "o", "n", "s">>,
        <<>> >>
     \o [k \in DOMAIN sortedVersions |-> versionItem(sortedVersions[k])]
     \o << <<>> >>

generateRootHome(file, v) ==
  writePage(rootHomeLines(parseExistingVersionsFromHome(file) \cup {v}))

\* String.prototype.trim, for the white space of the catalog
trim(t) == reverse(TrimStart(reverse(TrimStart(t))))

\* /## (.+)/ tried at position i: "## " and then the rest of the line, which
\* must not be empty
versionRegexSidebar(content, i) ==
  LET newline == indexOf(content, "\n", i + 3)
      end == IF newline = 0 THEN Len(content) + 1 ELSE newline
  IN IF /\ i + 3 <= Len(content)
        /\ SubSeq(content, i, i + 2) = <<"#", "#", " ">>
        /\ content[i + 3] # "\n"
     THEN [matched |-> TRUE, group |-> SubSeq(content, i + 3, end - 1), lastIndex |-> end]
     ELSE [matched |-> FALSE]

RECURSIVE execSidebar(_, _)
\* while ((match = versionRegex.exec(content)) !== null) {
\*   const version = match[1].trim(); if (version !== 'Versions') versions.add(version) }
execSidebar(content, from) ==
  LET start == first({i \in from..Len(content) : versionRegexSidebar(content, i).matched})
      match == versionRegexSidebar(content, start)
  IN IF start = 0 THEN {}
     ELSE (IF trim(match.group) # <<"V", "e", "r", "s", "i", "o", "n", "s">>
           THEN {trim(match.group)} ELSE {})
          \cup execSidebar(content, match.lastIndex)

parseExistingVersionsFromSidebar(file) ==
  IF file.exists THEN execSidebar(file.content, 1) ELSE {}

\* the lines generateRootSidebar pushes for a set of versions
rootSidebarLines(versions) ==
  LET sortedVersions == reverse(sort(versions))
  IN << <<"#", "#", " ", "V", "e", "r", "s", "i", "o", "n", "s">>, <<>> >>
     \o [k \in DOMAIN sortedVersions |-> versionItem(sortedVersions[k])]

generateRootSidebar(file, v) ==
  writePage(rootSidebarLines(parseExistingVersionsFromSidebar(file) \cup {v}))

\* The versions the generators are constructed with: a plain one, one with a
\* space and one with parentheses.
Versions == {<<"1", ".", "0">>, <<"1", ".", "1", " ", "r", "c">>, <<"1", ".", "0", " ", "(", "r", "c", ")">>}

\* toUpperCase of the letters category names are written in
toUpperCase(c) ==
  CASE c = "a" -> "A" [] c = "w" -> "W" [] OTHER -> c

\* category.split('/').map(part => part.charAt(0).toUpperCase() + part.slice(1)).join(' / ')
formatCategoryName(category) ==
  LET part(k) ==
        IF category[k] = "/" THEN <<" ", "/", " ">>
        ELSE IF k = 1 \/ category[k - 1] = "/" THEN <<toUpperCase(category[k])>>
        ELSE <<category[k]>>
      flat[k \in 0..Len(category)] == IF k = 0 THEN <<>> ELSE flat[k - 1] \o part(k)
  IN flat[Len(category)]

\* The lines of the version's pages are kept as what they say, not as characters:
\* a heading, an empty line, a table header with its separator line, a table row,
\* a list item, a paragraph, a horizontal rule.
Heading(level, text) == [kind |-> "heading", level |-> level, text |-> text]
Blank == [kind |-> "blank"]
TableHeader(table, columns) ==
  << [kind |-> "header", table |-> table, columns |-> columns],
     [kind |-> "separator", table |-> table, columns |-> Len(columns)] >>
Row(table, cells) == [kind |-> "row", table |-> table, cells |-> cells]
Item(text) == [kind |-> "item", text |-> text]
Paragraph(text) == [kind |-> "paragraph", text |-> text]
Rule == [kind |-> "rule"]

\* number.toString()
toString(number) == [tag |-> "string", decimal |-> number.v]
\* `0x${packetId.toString(16).padStart(2, '0').toUpperCase()}`
toHex(number) == [tag |-> "string", hexadecimal |-> number.v, padStart |-> 2]

formatByteSize(bytes) ==
  IF bytes.v <= 0 THEN Str("-")
  ELSE IF bytes.v < 1024 THEN [tag |-> "string", decimal |-> bytes.v, unit |-> "bytes"]
  ELSE IF bytes.v < 1024 * 1024
  THEN [tag |-> "string", whole |-> bytes.v % 1024 = 0,
        tenths |-> (bytes.v * 10 + 512) \div 1024, unit |-> "KB"]
  ELSE [tag |-> "string", whole |-> bytes.v % (1024 * 1024) = 0,
        tenths |-> (bytes.v * 10 + 512 * 1024) \div (1024 * 1024), unit |-> "MB"]

\* javaType.replace(/<.*>/, ''), for the types of the catalog
baseType(javaType) == IF javaType = "List<Mode>" THEN "List" ELSE javaType
\* type.split('.').pop() || type, for the types of the catalog
simpleName(type) == IF type = "proto.Mode" THEN "Mode" ELSE type
\* name.toLowerCase(), for the names of the catalog
toLowerCase(name) ==
  CASE name = "Ping" -> "ping" [] name = "Pong" -> "pong" [] name = "Quit" -> "quit"
    [] name = "Mode" -> "mode" [] name = "Vec" -> "vec" [] OTHER -> name

formatTypeLink(javaType, enumMap, classMap, v) ==
  LET name == simpleName(baseType(javaType))
  IN IF MapHas(enumMap, name)
     THEN [tag |-> "link", text |-> name, page |-> pageName(v \o <<"-", "E", "n", "u", "m", "s">>),
           anchor |-> toLowerCase(name)]
     ELSE IF MapHas(classMap, name)
     THEN [tag |-> "link", text |-> name, page |-> pageName(v \o <<"-", "D", "a", "t", "a", "-", "T", "y", "p", "e", "s">>),
           anchor |-> toLowerCase(name)]
     ELSE [tag |-> "code", text |-> javaType]

YesNo(flag) == IF flag THEN Str("Yes") ELSE Str("No")

\* the metadata table of a packet's section
propertyRows(packet) ==
  TableHeader("properties", <<"Property", "Value">>)
  \o (IF packet.packetId # Undefined
      THEN <<Row("properties", <<Str("Packet ID"), toHex(packet.packetId),
                                 toString(packet.packetId)>>)>>
      ELSE <<>>)
  \o <<Row("properties", <<Str("Compressed"), YesNo(packet.isCompressed)>>)>>
  \o (IF packet.fixedBlockSize.v > 0
      THEN <<Row("properties", <<Str("Fixed Block Size"), toString(packet.fixedBlockSize)>>)>>
      ELSE <<>>)
  \o <<Row("properties", <<Str("Variable Field Count"), toString(packet.variableFieldCount)>>)>>
  \o (IF packet.maxSize.v > 0
      THEN <<Row("properties", <<Str("Max Size"), formatByteSize(packet.maxSize)>>)>>
      ELSE <<>>)
  \o (IF packet.nullableBitFieldSize.v > 0
      THEN <<Row("properties", <<Str("Nullable Bit Field"),
                                 toString(packet.nullableBitFieldSize)>>)>>
      ELSE <<>>)
  \o (IF packet.variableBlockStart.v > 0
      THEN <<Row("properties", <<Str("Variable Block Start"),
                                 toString(packet.variableBlockStart)>>)>>
      ELSE <<>>)

\* layout.fields.find(f => f.name === field.name)
findLayoutField(layout, name) ==
  IF \E k \in DOMAIN layout.fields : layout.fields[k].name = name
  THEN layout.fields[CHOOSE k \in DOMAIN layout.fields :
                       /\ layout.fields[k].name = name
                       /\ \A j \in 1..(k - 1) : layout.fields[j].name # name]
  ELSE Undefined

\* the table with the wire layout: one row per field of the packet
enhancedTable(packet, layout, enumMap, classMap, v) ==
  TableHeader("fields", <<"Name", "Type", "Offset", "Size", "Encoding", "Nullable">>)
  \o [k \in DOMAIN packet.fields |->
        LET field == packet.fields[k]
            layoutField == findLayoutField(layout, field.name)
            offset == IF layoutField # Undefined /\ layoutField.wireOffset # Undefined
                      THEN toString(layoutField.wireOffset) ELSE Str("-")
            size == IF layoutField # Undefined /\ layoutField.wireSize # Undefined
                    THEN (IF layoutField.wireSize = Num(-1) THEN Str("var")
                          ELSE toString(layoutField.wireSize))
                    ELSE Str("-")
            encoding == IF layoutField # Undefined /\ layoutField.encoding # ""
                        THEN [tag |-> "code", text |-> layoutField.encoding] ELSE Str("-")
        IN Row("fields", <<[tag |-> "code", text |-> field.name],
                           formatTypeLink(field.javaType, enumMap, classMap, v),
                           offset, size, encoding, YesNo(field.nullable)>>)]

\* a packet section that gives a packet without layout no table
basicTableNone(packet, enumMap, classMap, v) == <<>>

\* the table without the wire layout: one row per field of the packet
basicTable(packet, enumMap, classMap, v) ==
  TableHeader("fields", <<"Name", "Type", "Nullable", "Max Length">>)
  \o [k \in DOMAIN packet.fields |->
        LET field == packet.fields[k]
            maxLength == IF "maxLength" \in DOMAIN field /\ field.maxLength # Num(0)
                         THEN toString(field.maxLength) ELSE Str("-")
        IN Row("fields", <<[tag |-> "code", text |-> field.name],
                           formatTypeLink(field.javaType, enumMap, classMap, v),
                           YesNo(field.nullable), maxLength>>)]

\* the inline enum values of one field
enumValueLines(field, enumMap) ==
  LET name == simpleName(field.javaType)
  IN IF MapHas(enumMap, name) /\ Len(MapGet(enumMap, name).values) > 0
     THEN <<Paragraph([field |-> field.name]), Blank>>
          \o [k \in DOMAIN MapGet(enumMap, name).values |->
                Item(MapGet(enumMap, name).values[k])]
          \o <<Blank>>
     ELSE <<>>

\* this.layouts.get(packet.name)
layoutsGet(lookup, name) == IF name \in DOMAIN lookup THEN lookup[name] ELSE Undefined

generatePacketSection(packet, enumMap, classMap, v, lookup) ==
  LET layout == layoutsGet(lookup, packet.name)
      values[k \in 0..Len(packet.fields)] ==
        IF k = 0 THEN <<>> ELSE values[k - 1] \o enumValueLines(packet.fields[k], enumMap)
  IN <<Heading(2, packet.name), Blank>>
     \o propertyRows(packet)
     \o <<Blank>>
     \o (IF Len(packet.fields) > 0
         THEN <<Heading(3, "Fields"), Blank>>
              \o (IF layout # Undefined /\ Len(layout.fields) > 0
                  THEN enhancedTable(packet, layout, enumMap, classMap, v)
                  ELSE basicTable(packet, enumMap, classMap, v))
              \o <<Blank>>
              \o (IF layout # Undefined /\ layout.notes \notin {Undefined, JsNull, Str("")}
                  THEN <<Paragraph([notes |-> layout.notes]), Blank>>
                  ELSE <<>>)
              \o values[Len(packet.fields)]
         ELSE <<>>)

\* a.packetId ?? 0
sortKey(packet) == IF packet.packetId = Undefined THEN 0 ELSE packet.packetId.v

RECURSIVE sortByPacketId(_)
\* packets.sort((a, b) => (a.packetId ?? 0) - (b.packetId ?? 0)): the sort is stable
sortByPacketId(list) ==
  IF list = <<>> THEN <<>>
  ELSE LET rest == sortByPacketId(Tail(list))
           before(q) == sortKey(q) < sortKey(Head(list))
           after(q) == ~before(q)
       IN SelectSeq(rest, before) \o <<Head(list)>> \o SelectSeq(rest, after)

generateCategoryPage(category, list, enumMap, classMap, v, lookup) ==
  LET sortedPackets == sortByPacketId(list)
      sections[k \in 0..Len(sortedPackets)] ==
        IF k = 0 THEN <<>>
        ELSE sections[k - 1]
             \o generatePacketSection(sortedPackets[k], enumMap, classMap, v, lookup)
             \o <<Rule, Blank>>
  IN <<Heading(1, formatCategoryName(category)), Blank,
       Paragraph([version |-> v]), Blank,
       Paragraph([packets |-> Len(list)]), Blank,
       Heading(2, "Packet Index"), Blank>>
     \o TableHeader("index", <<"ID", "Name", "Package", "Compressed", "Max Size">>)
     \o [k \in DOMAIN sortedPackets |->
           LET packet == sortedPackets[k]
           IN Row("index",
                  <<IF packet.packetId # Undefined THEN toHex(packet.packetId) ELSE Str("-"),
                    [tag |-> "link", text |-> packet.name, anchor |-> toLowerCase(packet.name)],
                    [tag |-> "code", text |-> packet.package],
                    YesNo(packet.isCompressed),
                    formatByteSize(packet.maxSize)>>)]
     \o <<Blank, Rule, Blank>>
     \o sections[Len(sortedPackets)]
     \o <<Paragraph([link |-> pageName(v \o <<"-", "H", "o", "m", "e">>)])>>

\* the links to the category pages, in the order of the sorted category names
categoryLinks(byCategory, v) ==
  LET sortedCategories == sort(MapKeys(byCategory))
  IN [k \in DOMAIN sortedCategories |->
        [text |-> formatCategoryName(sortedCategories[k]),
         page |-> pageName(v \o <<"-">> \o sortedCategories[k]),
         packets |-> Len(MapGet(byCategory, sortedCategories[k]))]]

generateVersionHome(byCategory, enumMap, classMap, v) ==
  LET counts == [k \in DOMAIN byCategory |-> Len(byCategory[k].value)]
      sum[k \in 0..Len(counts)] == IF k = 0 THEN 0 ELSE sum[k - 1] + counts[k]
      links == categoryLinks(byCategory, v)
  IN <<Heading(1, v), Blank, Heading(2, "Overview"), Blank,
       Item([version |-> v]),
       Item([totalPackets |-> sum[Len(counts)]]),
       Item([categories |-> Len(byCategory)]),
       Item([enums |-> Len(enumMap)]),
       Item([dataClasses |-> Len(classMap)]),
       Blank, Heading(2, "Packet Categories"), Blank>>
     \o [k \in DOMAIN links |-> Heading(3, links[k])]
     \o <<Heading(2, "Quick Links"), Blank,
          Item([page |-> pageName(v \o <<"-", "E", "n", "u", "m", "s">>)]),
          Item([page |-> pageName(v \o <<"-", "D", "a", "t", "a", "-", "T", "y", "p", "e", "s">>)]), Blank>>

\* The catalogs hold at most one enum and one data class, which the sort by name
\* leaves as they are.
generateEnumsPage(enumMap, v) ==
  LET details[k \in 0..Len(enumMap)] ==
        IF k = 0 THEN <<>>
        ELSE details[k - 1]
             \o <<Heading(2, enumMap[k].value.name), Blank>>
             \o (IF Len(enumMap[k].value.values) > 0
                 THEN TableHeader("values", <<"Name", "Value">>)
                      \o [j \in DOMAIN enumMap[k].value.values |->
                            Row("values", <<enumMap[k].value.values[j]>>)]
                      \o <<Blank>>
                 ELSE <<>>)
  IN <<Heading(1, v), Blank, Paragraph([link |-> pageName(v \o <<"-", "H", "o", "m", "e">>)]), Blank,
       Heading(2, "Enum Types"), Blank>>
     \o [k \in DOMAIN enumMap |-> Item([anchor |-> toLowerCase(enumMap[k].value.name)])]
     \o <<Blank>>
     \o details[Len(enumMap)]

generateDataTypesPage(classMap, enumMap, v) ==
  LET details[k \in 0..Len(classMap)] ==
        IF k = 0 THEN <<>>
        ELSE details[k - 1]
             \o <<Heading(2, classMap[k].value.name), Blank>>
             \o (IF Len(classMap[k].value.fields) > 0
                 THEN <<Heading(3, "Fields"), Blank>>
                      \o TableHeader("fields", <<"Field", "Type", "Nullable">>)
                      \o [j \in DOMAIN classMap[k].value.fields |->
                            LET field == classMap[k].value.fields[j]
                            IN Row("fields",
                                   <<[tag |-> "code", text |-> field.name],
                                     formatTypeLink(field.javaType, enumMap, classMap, v),
                                     YesNo(field.nullable)>>)]
                      \o <<Blank>>
                 ELSE <<>>)
  IN <<Heading(1, v), Blank, Paragraph([link |-> pageName(v \o <<"-", "H", "o", "m", "e">>)]), Blank,
       Heading(2, "Data Classes"), Blank>>
     \o [k \in DOMAIN classMap |-> Item([anchor |-> toLowerCase(classMap[k].value.name)])]
     \o <<Blank>>
     \o details[Len(classMap)]

generateVersionSidebar(byCategory, v) ==
  LET links == categoryLinks(byCategory, v)
  IN <<Heading(2, v), Blank, Item([page |-> pageName(v \o <<"-", "H", "o", "m", "e">>)])>>
     \o [k \in DOMAIN links |-> Item(links[k])]
     \o <<Item([page |-> pageName(v \o <<"-", "E", "n", "u", "m", "s">>)]),
          Item([page |-> pageName(v \o <<"-", "D", "a", "t", "a", "-", "T", "y", "p", "e", "s">>)])>>

\* The packets of the catalog: one with an id and two fields, one without an id,
\* one without fields.
WikiPacket(n, id, fs) ==
  [name |-> n, package |-> "proto", packetId |-> id, isCompressed |-> FALSE,
   nullableBitFieldSize |-> Num(0), fixedBlockSize |-> Num(4),
   variableFieldCount |-> Num(0), variableBlockStart |-> Num(0), maxSize |-> Num(2048),
   fields |-> fs]
Ping == WikiPacket("Ping", Num(7), <<FieldInfo("id", "int", FALSE),
                                     FieldInfo("name", "proto.Mode", TRUE)>>)
Pong == WikiPacket("Pong", Undefined, <<FieldInfo("id", "List<Mode>", FALSE)>>)
Quit == WikiPacket("Quit", Num(2), <<>>)

\* the packetsByCategory maps handed to generate
WikiPacketMaps ==
  { <<[key |-> <<"a", "u", "t", "h">>, value |-> <<Ping, Pong>>]>>,
    <<[key |-> <<"w", "o", "r", "l", "d">>, value |-> <<Ping>>], [key |-> <<"a", "u", "t", "h">>, value |-> <<Pong, Quit>>]>>,
    <<[key |-> <<"a", "u", "t", "h">>, value |-> <<Quit>>]>> }

\* the enums maps handed to generate
WikiEnums ==
  { <<>>,
    <<[key |-> "Mode",
       value |-> [name |-> "Mode", values |-> <<[name |-> "ON", value |-> Num(0)]>>]]>> }

\* the dataClasses map handed to generate
WikiDataClasses ==
  <<[key |-> "Vec", value |-> [name |-> "Vec", fields |-> <<FieldInfo("x", "int", FALSE)>>]]>>

\* the lookups handed to setLayouts: layouts as normalizeLayout returns them
WikiLayouts ==
  LET response(fs, notes) ==
        [fields |-> fs, totalFixedSize |-> Num(4), hasVariableSection |-> FALSE,
         variableSectionStart |-> JsNull, nullBitMappings |-> <<>>, notes |-> notes]
      fieldLayout == [name |-> "id", wireOffset |-> Num(0), wireSize |-> Num(4),
                      encoding |-> "int32_le", isVariable |-> FALSE, nullBit |-> JsNull,
                      notes |-> JsNull]
  IN { <<>>,
       ("Ping" :> normalizeLayout(response(<<fieldLayout>>, JsNull), Ping)),
       ("Pong" :> normalizeLayout(response(<<>>, Str("empty")), Pong))
         @@ ("Quit" :> normalizeLayout(response(<<fieldLayout>>, JsNull), Quit)) }

InitWiki ==
  /\ AnalyzerUnused
  /\ NormalizeUnused
  /\ ExtractUnused
  /\ ParseUnused
  /\ generator = "none"
  /\ version = <<>>
  /\ layouts = <<>>
  /\ documented = <<>>
  /\ homeFile = NoFile
  /\ sidebarFile = NoFile
  /\ pages = <<>>
  /\ runs = <<>>

exceptWiki == <<analyzerVars, normalizeVars, extractVars, parseVars>>

\* new WikiGenerator(outputDir, version), on the output directory of the runs before
WikiGenerator ==
  /\ generator \in {"none", "generated"}
  /\ Len(runs) < MaxRuns
  /\ version' \in Versions
  /\ layouts' = <<>>
  /\ generator' = "constructed"
  /\ UNCHANGED <<documented, homeFile, sidebarFile, pages, runs>>
  /\ UNCHANGED exceptWiki

setLayouts ==
  /\ generator = "constructed"
  /\ layouts' \in WikiLayouts
  /\ UNCHANGED <<generator, version, documented, homeFile, sidebarFile, pages, runs>>
  /\ UNCHANGED exceptWiki

\* the pages of one version, the ones of earlier runs that are not written again included
versionPages(earlier, byCategory, enumMap, classMap, v, lookup) ==
  [home |-> generateVersionHome(byCategory, enumMap, classMap, v),
   categories |->
     [c \in MapKeys(byCategory) |->
        generateCategoryPage(c, MapGet(byCategory, c), enumMap, classMap, v, lookup)]
     @@ earlier,
   enums |-> generateEnumsPage(enumMap, v),
   dataTypes |-> generateDataTypesPage(classMap, enumMap, v),
   sidebar |-> generateVersionSidebar(byCategory, v)]

generate ==
  /\ generator = "constructed"
  /\ \E byCategory \in WikiPacketMaps, enumMap \in WikiEnums :
       /\ documented' = byCategory
       /\ pages' =
            (version :> versionPages(IF version \in DOMAIN pages
                                     THEN pages[version].categories ELSE <<>>,
                                     byCategory, enumMap, WikiDataClasses, version, layouts))
            @@ pages
  /\ homeFile' = generateRootHome(homeFile, version)
  /\ sidebarFile' = generateRootSidebar(sidebarFile, version)
  /\ runs' = Append(runs, version)
  /\ generator' = "generated"
  /\ UNCHANGED <<version, layouts>>
  /\ UNCHANGED exceptWiki

NextWiki ==
  \/ WikiGenerator
  \/ setLayouts
  \/ generate

SpecWiki == InitWiki /\ [][NextWiki]_vars

(* --------------------- properties of analyzePackets -------------------- *)
BatchPcs == {"loop", "await", "done", "rejected"}
DirectPcs == {"request", "returned", "thrown"}

Range(f) == {f[x] : x \in DOMAIN f}
HasBundle(i) == packets[i].deserializeContext

RECURSIVE BundlesFrom(_)
\* the indices of the bundle-bearing packets of the input, in input order
BundlesFrom(i) ==
  IF i > Len(packets) THEN <<>>
  ELSE (IF HasBundle(i) THEN <<i>> ELSE <<>>) \o BundlesFrom(i + 1)
Bundles == BundlesFrom(1)

CeilDiv(n, k) == (n + k - 1) \div k

\* requests started and not yet resolved
InFlight == {i \in DOMAIN packets : requests[i] > 0 /\ outcomes[i] = NotAsked}
Succeeded(i) == outcomes[i].kind = "output"
Failed(i) == outcomes[i].kind \in {"error", "nooutput"}
\* the LayoutAnalysis the i-th packet's call produced
LayoutOf(i) == normalizeLayout(outcomes[i].output, packets[i])
\* a later packet of the same name produced a layout as well
Superseded(i) ==
  \E k \in DOMAIN packets : k > i /\ packets[k].name = packets[i].name /\ Succeeded(k)

\* C1: with N bundle-bearing packets and limit K >= 1 the groups started are,
\* in order, the consecutive K-element slices of the bundle-bearing packets in
\* input order; when analyzePackets has returned there are exactly ceil(N/K)
\* of them, all of K members but the last, which has N - (ceil(N/K)-1)*K.
C1_GroupsAreSlices ==
  (pc \in BatchPcs /\ maxConcurrency >= 1) =>
    LET K == maxConcurrency
        N == Len(Bundles)
    IN /\ \A g \in DOMAIN groups :
            /\ groups[g] = SubSeq(Bundles, (g - 1) * K + 1, Min(g * K, N))
            /\ g <= CeilDiv(N, K)
            /\ Len(groups[g]) = IF g < CeilDiv(N, K) THEN K
                                ELSE N - (CeilDiv(N, K) - 1) * K
       /\ pc = "done" => Len(groups) = CeilDiv(N, K)

\* a finished run of three or more groups whose last group is a partial one
C1_Witness ==
  /\ pc = "done"
  /\ Len(groups) >= 3
  /\ Len(groups[1]) = maxConcurrency
  /\ maxConcurrency >= 2
  /\ Len(groups[Len(groups)]) < maxConcurrency
  /\ Len(Bundles) < Len(packets)

\* the limit as configured: 5 when the option is absent
ConfiguredLimit ==
  IF options.maxConcurrency = Undefined THEN 5 ELSE options.maxConcurrency.v

\* C2: at every point of analyzePackets the number of requests started and
\* not yet resolved is at most the limit K (5 when none is configured).
C2_InFlightAtMostLimit ==
  (pc \in BatchPcs /\ ConfiguredLimit >= 1) => Cardinality(InFlight) <= ConfiguredLimit

\* no limit configured, five requests in flight and a sixth packet waiting
C2_Witness ==
  /\ pc = "await"
  /\ options.maxConcurrency = Undefined
  /\ Cardinality(InFlight) = 5
  /\ queue # <<>>

\* C3: a failing call does not stop the batch: analyzePackets never rejects,
\* and when it has returned every bundle-bearing packet has been asked about
\* and every packet whose call produced a layout has it in the lookup under
\* its name (the last input packet of a name, when several produced one).
C3_FailureIsolated ==
  /\ pc # "rejected"
  /\ pc = "done" =>
       /\ \A i \in DOMAIN packets : HasBundle(i) => outcomes[i] # NotAsked
       /\ \A i \in DOMAIN packets :
            Succeeded(i) =>
              /\ packets[i].name \in DOMAIN results
              /\ ~Superseded(i) => results[packets[i].name] = LayoutOf(i)

\* a finished run in which the first group has a failed member followed by a
\* member with a layout, and a later group has a member with a layout
C3_Witness ==
  /\ pc = "done"
  /\ Len(groups) >= 2
  /\ \E a, b \in Range(groups[1]) :
       /\ a < b /\ Failed(a) /\ Succeeded(b) /\ ~Superseded(b)
       /\ results[packets[b].name] = LayoutOf(b)
  /\ \E c \in Range(groups[2]) : Succeeded(c)

\* C4: no call of a group is started before every call of the preceding
\* groups has resolved: a request in flight belongs to the group started last.
C4_GroupsSequential ==
  pc \in BatchPcs =>
    \A g \in DOMAIN groups : g < Len(groups) =>
      \A j \in DOMAIN groups[g] : groups[g][j] \notin InFlight

\* the second group is in flight, after a first group of several members
C4_Witness ==
  /\ pc = "await"
  /\ Len(groups) = 2
  /\ Len(groups[1]) >= 2
  /\ Cardinality(InFlight) >= 2
  /\ \A i \in Range(groups[1]) : outcomes[i] # NotAsked

\* C5: a packet without deserializeContext never causes a request: in
\* analyzePackets it is in no group and not counted in total, and
\* analyzePacket called on it returns null at once, without a request.
C5_NoBundleNoRequest ==
  /\ pc \in BatchPcs =>
       /\ total = Cardinality({i \in DOMAIN packets : HasBundle(i)})
       /\ \A i \in DOMAIN packets : ~HasBundle(i) =>
            /\ requests[i] = 0
            /\ \A k \in DOMAIN queue : queue[k] # i
            /\ \A g \in DOMAIN groups : i \notin Range(groups[g])
  /\ (pc \in DirectPcs /\ ~HasBundle(1)) =>
       pc = "returned" /\ returned = JsNull /\ requests[1] = 0

\* a finished run over an input whose second packet has no bundle
C5_Witness ==
  /\ pc = "done"
  /\ Len(packets) >= 3
  /\ ~HasBundle(2)
  /\ total = Len(packets) - 1
  /\ \A i \in DOMAIN packets : HasBundle(i) => requests[i] = 1

\* C6: analyzePacket never throws: when its request raises an error or the
\* response has no structured output it returns null, and in the lookup
\* analyzePackets returns that packet's name is absent (unless another packet
\* of the same name produced a layout).
C6_FailureYieldsNull ==
  /\ pc \notin {"thrown", "rejected"}
  /\ (pc = "returned" /\ Failed(1)) => returned = JsNull
  /\ pc \in BatchPcs =>
       \A j \in DOMAIN settled :
         Failed(batch[j]) => settled[j].state = "fulfilled" /\ settled[j].layout = JsNull
  /\ pc = "done" =>
       \A i \in DOMAIN packets :
         (Failed(i) /\ ~\E k \in DOMAIN packets :
                          packets[k].name = packets[i].name /\ Succeeded(k))
           => packets[i].name \notin DOMAIN results

\* a finished run with an errored request, a response without output and a
\* layout, all in one group
C6_Witness ==
  /\ pc = "done"
  /\ Len(groups) >= 1
  /\ \E a, b, c \in Range(groups[1]) :
       /\ outcomes[a] = Error /\ outcomes[b] = NoOutput /\ Succeeded(c)
       /\ packets[a].name \notin DOMAIN results
       /\ packets[b].name \notin DOMAIN results
       /\ packets[c].name \in DOMAIN results

\* C7: one request per bundle-bearing packet, failed or not: never a second
\* request for a packet, and one for each when analyzePackets has returned.
C7_OneRequestPerBundle ==
  pc \in BatchPcs =>
    \A i \in DOMAIN packets :
      /\ requests[i] <= 1
      /\ Failed(i) => requests[i] = 1
      /\ pc = "done" => requests[i] = IF HasBundle(i) THEN 1 ELSE 0

\* a finished run of several groups with a failed request
C7_Witness ==
  /\ pc = "done"
  /\ Len(groups) >= 2
  /\ \E i \in DOMAIN packets : outcomes[i] = Error /\ requests[i] = 1
  /\ \E i \in DOMAIN packets : Succeeded(i) /\ requests[i] = 1

\* the position of packet i in the batch being awaited
BatchPosition(i) == CHOOSE j \in DOMAIN batch : batch[j] = i

\* C8: while a call is unresolved its group cannot complete: analyzePackets
\* is still awaiting that group, can neither merge it nor return, no packet
\* still queued has been asked about, and every other unresolved call of the
\* group can still resolve.
C8_HangStallsBatch ==
  (pc \in BatchPcs /\ InFlight # {}) =>
    /\ pc = "await"
    /\ InFlight \subseteq Range(batch)
    /\ ~ENABLED Merge
    /\ ~ENABLED analyzePacketsReturn
    /\ ~ENABLED StartBatch
    /\ \A k \in DOMAIN queue : requests[queue[k]] = 0
    /\ \A i \in InFlight : ENABLED Resolve(BatchPosition(i))

\* one call of the first group is unresolved, its siblings have resolved and
\* packets are still queued
C8_Witness ==
  /\ pc = "await"
  /\ Len(groups) = 1
  /\ Len(batch) >= 3
  /\ Cardinality(InFlight) = 1
  /\ queue # <<>>
  /\ completed = Len(batch) - 1

(* ---------------------- properties of analyzePacket -------------------- *)
PowersOfTwo == {2 ^ k : k \in 0..30}

\* the LayoutAnalysis records that analyzePacket has returned
Accepted ==
  (IF pc = "returned" /\ returned # JsNull THEN {returned} ELSE {})
  \cup {settled[j].layout : j \in {k \in DOMAIN settled : settled[k].layout # JsNull}}
  \cup Range(results)

\* C9: in every LayoutAnalysis returned by analyzePacket each nullBit present
\* is a power of two and no two fields have the same nullBit.
C9_NullBitsPowersOfTwo ==
  \A a \in Accepted :
    /\ \A i \in DOMAIN a.fields :
         a.fields[i].nullBit # Undefined => a.fields[i].nullBit.v \in PowersOfTwo
    /\ \A i, j \in DOMAIN a.fields :
         (i # j /\ a.fields[i].nullBit # Undefined) =>
           a.fields[i].nullBit # a.fields[j].nullBit

\* C10: analyzePacket on a packet with a bundle returns nothing, or a
\* LayoutAnalysis all of whose field names are declared on the packet.
C10_FieldNamesDeclared ==
  (pc = "returned" /\ HasBundle(1) /\ returned # JsNull) =>
    \A i \in DOMAIN returned.fields :
      returned.fields[i].name \in Range(packets[1].fields)

\* C11: in every LayoutAnalysis returned by analyzePacket each field's encoding
\* is one of the listed encoding strings; a response with another encoding
\* string is not accepted.
C11_EncodingInVocabulary ==
  \A a \in Accepted :
    \A i \in DOMAIN a.fields : a.fields[i].encoding \in EncodingVocabulary

(* --------------------- properties of normalizeLayout ------------------- *)
\* null becomes absent, any other value is kept
Absent(v) == IF v = JsNull THEN Undefined ELSE v

\* the position of the last pair of the list that names the bit
LastWith(ms, bit) ==
  CHOOSE k \in DOMAIN ms : ms[k].bit = bit /\ \A l \in DOMAIN ms : l > k => ms[l].bit # bit

\* C12: normalizeLayout keeps the fields in order with name, wireOffset,
\* wireSize, encoding and isVariable unchanged, turns a null nullBit, notes
\* and variableSectionStart into an absent value, makes nullBitMapping hold
\* bit -> fieldName for each pair of the response, the last pair of a bit
\* winning, leaves nullBitMapping absent when there is no pair, and sets
\* packetName to the name of the packet analysed.
C12_NormalizeLayout ==
  normalized \notin {NotUsed, NotYet} =>
    LET in == normalizeInput.parsed
        ms == in.nullBitMappings
    IN /\ normalized.packetName = normalizeInput.packet.name
       /\ DOMAIN normalized.fields = DOMAIN in.fields
       /\ \A i \in DOMAIN in.fields :
            /\ normalized.fields[i].name = in.fields[i].name
            /\ normalized.fields[i].wireOffset = in.fields[i].wireOffset
            /\ normalized.fields[i].wireSize = in.fields[i].wireSize
            /\ normalized.fields[i].encoding = in.fields[i].encoding
            /\ normalized.fields[i].isVariable = in.fields[i].isVariable
            /\ normalized.fields[i].nullBit = Absent(in.fields[i].nullBit)
            /\ normalized.fields[i].notes = Absent(in.fields[i].notes)
       /\ normalized.variableSectionStart = Absent(in.variableSectionStart)
       /\ normalized.notes = Absent(in.notes)
       /\ (ms = <<>>) <=> (normalized.nullBitMapping = Undefined)
       /\ ms # <<>> =>
            /\ DOMAIN normalized.nullBitMapping.map = {ms[k].bit : k \in DOMAIN ms}
            /\ \A k \in DOMAIN ms :
                 normalized.nullBitMapping.map[ms[k].bit] = ms[LastWith(ms, ms[k].bit)].fieldName

\* a response of two differing fields, a null and a present nullBit, and a
\* bit that is mapped twice, to different field names
C12_Witness ==
  /\ normalized \notin {NotUsed, NotYet}
  /\ Len(normalized.fields) = 2
  /\ normalized.fields[1].name # normalized.fields[2].name
  /\ normalized.fields[1].nullBit = Undefined
  /\ normalized.fields[2].nullBit = Num(1)
  /\ normalized.fields[2].notes # Undefined
  /\ Len(normalizeInput.parsed.nullBitMappings) = 2
  /\ normalizeInput.parsed.nullBitMappings[1].bit = "1"
  /\ normalizeInput.parsed.nullBitMappings[2].bit = "1"
  /\ normalizeInput.parsed.nullBitMappings[1].fieldName # normalizeInput.parsed.nullBitMappings[2].fieldName
  /\ normalized.nullBitMapping.map["1"] = normalizeInput.parsed.nullBitMappings[2].fieldName

(* ------------------------ properties of the extraction ------------------------- *)
ExtractedPacket == declaration.type = "class_declaration" /\ extracted # NotYet
ExtractedEnum == declaration.type = "enum_declaration" /\ extracted # NotYet

Constructors(body) == {k \in DOMAIN body : body[k].type = "constructor_declaration"}
\* a copy constructor: one parameter, of the type of the class that declares it
CopyConstructor(c) ==
  Len(c.parameters) = 1 /\ c.parameters[1].javaType = c.parentClass
NonCopyWithParameters(body) ==
  {k \in Constructors(body) : Len(body[k].parameters) >= 1 /\ ~CopyConstructor(body[k])}
\* the fullest of them, the first one among equals
Fullest(body, K) ==
  CHOOSE k \in K : \A j \in K :
    \/ Len(body[j].parameters) < Len(body[k].parameters)
    \/ Len(body[j].parameters) = Len(body[k].parameters) /\ k <= j
ParameterList(c) ==
  [i \in 1..Len(c.parameters) |->
     FieldInfo(c.parameters[i].name, c.parameters[i].javaType,
               "@Nullable" \in c.parameters[i].modifiers)]
OnlyVarargs(c) == \A i \in DOMAIN c.parameters : c.parameters[i].type = "spread_parameter"
NonStaticFields(body) ==
  LET F == {k \in DOMAIN body : body[k].type = "field_declaration"
                                   /\ "static" \notin body[k].modifiers}
      nth[i \in 0..Len(body)] ==
        IF i = 0 THEN <<>>
        ELSE IF i \in F
             THEN Append(nth[i - 1], FieldInfo(body[i].name, body[i].javaType,
                                              "@Nullable" \in body[i].modifiers))
             ELSE nth[i - 1]
  IN nth[Len(body)]

\* C13: when the class declares a non-copy constructor with parameters, the
\* packet's fields are exactly the parameter list of the fullest such constructor
\* of the class: one field per parameter, in parameter order, with the parameter's
\* name, declared type and nullable iff annotated @Nullable.
C13_FieldsAreParameterList ==
  ExtractedPacket =>
    LET own == {k \in NonCopyWithParameters(declaration.body) :
                  declaration.body[k].parentClass = declaration.name}
    IN own # {} =>
         extracted.fields = ParameterList(declaration.body[Fullest(declaration.body, own)])

\* C14 as amended: a copy constructor is never the field source, and extractFields
\* falls back to the non-static field declarations only when the class body holds
\* no non-copy constructor with a parameter or the fullest one holds nothing but a
\* varargs parameter; the fields are then those declarations, in order.
C14_CopyNeverChosenFallback ==
  ExtractedPacket =>
    LET body == declaration.body
        K == NonCopyWithParameters(body)
    IN /\ fieldSource.kind \in {"constructor", "declarations"}
       /\ fieldSource.kind = "constructor" =>
            /\ fieldSource.index \in Constructors(body)
            /\ ~CopyConstructor(body[fieldSource.index])
       /\ fieldSource.kind = "declarations" =>
            /\ K = {} \/ OnlyVarargs(body[Fullest(body, K)])
            /\ extracted.fields = NonStaticFields(body)

\* the class holds a copy constructor and a two-parameter constructor, declared
\* after it, which is the field source
C14_Witness ==
  /\ ExtractedPacket
  /\ \E k \in Constructors(declaration.body) : CopyConstructor(declaration.body[k])
  /\ fieldSource.kind = "constructor"
  /\ Len(extracted.fields) = 2

\* C14 as stated: the fallback happens only when the class has no non-copy
\* constructor at all.
C14_FallbackOnlyWithoutConstructor ==
  ExtractedPacket =>
    /\ fieldSource.kind = "constructor" =>
         ~CopyConstructor(declaration.body[fieldSource.index])
    /\ fieldSource.kind = "declarations" =>
         \A k \in Constructors(declaration.body) : CopyConstructor(declaration.body[k])

\* an integer literal: decimal digits, or 0x and hexadecimal digits, with or
\* without a minus sign before it
IsIntegerLiteral(t) ==
  LET u == IF t # <<>> /\ Head(t) = "-" THEN Tail(t) ELSE t
  IN \/ u # <<>> /\ \A i \in DOMAIN u : IsDigit(u[i], 10)
     \/ /\ Len(u) >= 3 /\ u[1] = "0" /\ u[2] \in {"x", "X"}
        /\ \A i \in 3..Len(u) : IsDigit(u[i], 16)

\* C15: every enum constant gets the integer value of its first constructor
\* argument when that argument is an integer literal, and its declaration index
\* (0, 1, 2, ...) otherwise.
C15_EnumValueLiteralOrIndex ==
  (ExtractedEnum /\ extracted # JsNull) =>
    /\ Len(extracted.values) = Len(declaration.body)
    /\ \A k \in DOMAIN declaration.body :
         LET constant == declaration.body[k]
         IN extracted.values[k].value =
              IF /\ constant.hasArguments
                 /\ constant.arguments # <<>>
                 /\ IsIntegerLiteral(constant.arguments[1])
              THEN parseInt(constant.arguments[1])
              ELSE Num(k - 1)

(* --------------------------- properties of parseAll ---------------------------- *)
Returned == phase = "returned"
Files == DOMAIN sourceTree
IsSource(i) == sourceTree[i].extension = ".java"
\* under the packets directory of the root
UnderPackets(i) == Len(sourceTree[i].dir) >= 1 /\ sourceTree[i].dir[1] = "packets"
\* under a directory named packets, at any depth
UnderSomePackets(i) == \E k \in DOMAIN sourceTree[i].dir : sourceTree[i].dir[k] = "packets"
Sound(i) == sourceTree[i].status = "ok"
ReadCount(i) == Cardinality({k \in DOMAIN reads : reads[k][2] = i})
Declares(i, type, name) ==
  \E k \in DOMAIN sourceTree[i].declarations :
    sourceTree[i].declarations[k].type = type /\ sourceTree[i].declarations[k].name = name
Classes(i) ==
  {k \in DOMAIN sourceTree[i].declarations :
     sourceTree[i].declarations[k].type = "class_declaration"}
LastClassName(i) ==
  sourceTree[i].declarations[CHOOSE k \in Classes(i) : \A j \in Classes(i) : j <= k].name
PacketsOf(category) ==
  IF MapHas(packetsByCategory, category) THEN MapGet(packetsByCategory, category) ELSE <<>>
PacketNamesOf(category) == {PacketsOf(category)[k].name : k \in DOMAIN PacketsOf(category)}
PacketNames == UNION {PacketNamesOf(category) : category \in MapKeys(packetsByCategory)}

\* C16: once the primary pass is over, every enum name it registered keeps the
\* entry the primary pass stored, through the secondary pass and in the result;
\* the secondary pass only appends entries for names that were absent.
C16_SecondaryKeepsPrimary ==
  phase \in {"enums", "returned"} =>
    /\ \A name \in MapKeys(primaryEnums) :
         MapHas(enums, name) /\ MapGet(enums, name) = MapGet(primaryEnums, name)
    /\ Len(enums) >= Len(primaryEnums)
    /\ \A k \in DOMAIN enums :
         k > Len(primaryEnums) =>
           /\ enums[k].key \notin MapKeys(primaryEnums)
           /\ \E i \in Files : UnderPackets(i) /\ Declares(i, "enum_declaration", enums[k].key)

\* the packets directory declares an enum the primary pass registered, with other
\* constants, and an enum it did not
C16_Witness ==
  /\ Returned
  /\ \E i \in Files :
       /\ UnderPackets(i) /\ Sound(i)
       /\ \E name \in MapKeys(primaryEnums) :
            /\ Declares(i, "enum_declaration", name)
            /\ \A k \in DOMAIN sourceTree[i].declarations :
                 MapGet(primaryEnums, name).values
                   # enumValues(sourceTree[i].declarations[k].body, 1, <<>>)
  /\ Len(enums) > Len(primaryEnums)

\* C17 as amended: no class declaration is registered both as a Message and as a
\* DataAggregate.  An aggregate comes from a class, outside every packets
\* directory, whose name does not contain Packet; a Message comes from a class
\* under the packets directory of the root; and a name is in both maps only when
\* a class outside and a class inside the packets directory share it.
C17_NoClassInBoth ==
  /\ \A name \in MapKeys(dataClasses) :
       /\ name # "FooPacket"
       /\ \E i \in Files :
            /\ ~UnderSomePackets(i) /\ Sound(i) /\ Declares(i, "class_declaration", name)
            /\ MapGet(dataClasses, name).sourcePath = sourceTree[i].dir
  /\ \A category \in MapKeys(packetsByCategory) :
       \A name \in PacketNamesOf(category) :
         \E i \in Files :
           /\ UnderPackets(i) /\ Sound(i) /\ Declares(i, "class_declaration", name)
           /\ category = categoryOf(SubSeq(sourceTree[i].dir, 2, Len(sourceTree[i].dir)),
                                    "uncategorized")
  /\ \A name \in MapKeys(dataClasses) \cap PacketNames :
       \E i, j \in Files :
         /\ ~UnderSomePackets(i) /\ Declares(i, "class_declaration", name)
         /\ UnderPackets(j) /\ Declares(j, "class_declaration", name)

\* a class named FooPacket outside the packets directory was scanned and left out,
\* next to an aggregate and a Message
C17_Witness ==
  /\ Returned
  /\ \E i \in Files :
       /\ Declares(i, "class_declaration", "FooPacket")
       /\ \E k \in DOMAIN reads : reads[k] = <<"entities", i>>
  /\ dataClasses # <<>>
  /\ packetsByCategory # <<>>

\* C17 as stated: after parseAll no name occurs both in a packetsByCategory list
\* and in the dataClasses map.
C17_NoNameInBoth == Returned => MapKeys(dataClasses) \cap PacketNames = {}

\* C18 as amended: in one parseAll run every source file under the packets
\* directory of the root is read exactly twice (by the packet pass and by the
\* secondary enum pass), every source file with no directory named packets on its
\* path exactly once, and no file more often than that; other files are not read.
C18_ReadOnceOrTwice ==
  /\ \A i \in Files : ReadCount(i) <= IF UnderPackets(i) THEN 2 ELSE 1
  /\ Returned =>
       \A i \in Files :
         /\ ~IsSource(i) => ReadCount(i) = 0
         /\ IsSource(i) /\ UnderPackets(i) =>
              /\ ReadCount(i) = 2
              /\ \E k, m \in DOMAIN reads : reads[k] = <<"packets", i>> /\ reads[m] = <<"enums", i>>
         /\ IsSource(i) /\ ~UnderSomePackets(i) => ReadCount(i) = 1

\* a tree with a source file under the packets directory, one outside it and a
\* file that is no source file
C18_Witness ==
  /\ Returned
  /\ \E i, j, k \in Files :
       /\ IsSource(i) /\ UnderPackets(i)
       /\ IsSource(j) /\ ~UnderSomePackets(j)
       /\ ~IsSource(k)

\* C18 as stated: every source file under the root is read exactly once.
C18_ReadExactlyOnce == Returned => \A i \in Files : IsSource(i) => ReadCount(i) = 1

\* C19: every source file under the root that is not inside the packets directory
\* of the root is scanned for enum and aggregate declarations, at whatever depth.
C19_EveryOutsideFileScanned ==
  Returned =>
    \A i \in Files :
      (IsSource(i) /\ ~UnderPackets(i)) => \E k \in DOMAIN reads : reads[k] = <<"entities", i>>

\* C20: a file that is empty, unreadable or fails to parse never aborts parseAll
\* and contributes no entity: every entity of the result comes from a sound file,
\* and every sound file that a pass reads has its entities in the result.
C20_BadFileSkipped ==
  /\ phase # "aborted"
  /\ \A name \in MapKeys(enums) :
       \E i \in Files :
         /\ Sound(i) /\ Declares(i, "enum_declaration", name)
         /\ UnderPackets(i) \/ ~UnderSomePackets(i)
  /\ \A name \in MapKeys(dataClasses) :
       \E i \in Files : Sound(i) /\ ~UnderSomePackets(i) /\ Declares(i, "class_declaration", name)
  /\ \A name \in PacketNames :
       \E i \in Files : Sound(i) /\ UnderPackets(i) /\ Declares(i, "class_declaration", name)
  /\ Returned =>
       \A i \in Files :
         (Sound(i) /\ IsSource(i)) =>
           \A k \in DOMAIN sourceTree[i].declarations :
             LET node == sourceTree[i].declarations[k]
             IN /\ (node.type = "enum_declaration" /\ (UnderPackets(i) \/ ~UnderSomePackets(i)))
                     => MapHas(enums, node.name)
                /\ (node.type = "class_declaration" /\ ~UnderSomePackets(i)
                      /\ node.name # "FooPacket")
                     => MapHas(dataClasses, node.name)
                /\ (UnderPackets(i) /\ node.type = "class_declaration")
                     => LastClassName(i) \in
                          PacketNamesOf(categoryOf(SubSeq(sourceTree[i].dir, 2,
                                                          Len(sourceTree[i].dir)),
                                                   "uncategorized"))

\* an unreadable file was read, a sound file was read after it, and the result
\* holds an entity
C20_Witness ==
  /\ Returned
  /\ \E k, m \in DOMAIN reads :
       /\ k < m
       /\ sourceTree[reads[k][2]].status \in {"unreadable", "parse throws"}
       /\ sourceTree[reads[m][2]].status = "ok"
       /\ sourceTree[reads[m][2]].declarations # <<>>
  /\ Len(enums) + Len(dataClasses) + Len(packetsByCategory) > 0

(* ---------------------- properties of the packet constants --------------------- *)
\* the declarations of the class body that extractConstants reads for a constant
DeclarationsOf(body, name) ==
  {k \in DOMAIN body :
     /\ body[k].type = "field_declaration"
     /\ {"static", "final"} \subseteq body[k].modifiers
     /\ body[k].name = name
     /\ body[k].value # NoText}
LastOf(K) == CHOOSE k \in K : \A j \in K : j <= k
NumericNames ==
  {"PACKET_ID", "NULLABLE_BIT_FIELD_SIZE", "FIXED_BLOCK_SIZE", "VARIABLE_FIELD_COUNT",
   "VARIABLE_BLOCK_START", "MAX_SIZE"}
PropertyOf(packet, name) ==
  CASE name = "PACKET_ID" -> packet.packetId
    [] name = "NULLABLE_BIT_FIELD_SIZE" -> packet.nullableBitFieldSize
    [] name = "FIXED_BLOCK_SIZE" -> packet.fixedBlockSize
    [] name = "VARIABLE_FIELD_COUNT" -> packet.variableFieldCount
    [] name = "VARIABLE_BLOCK_START" -> packet.variableBlockStart
    [] name = "MAX_SIZE" -> packet.maxSize

C22_BundleIffDeserialize ==
  ExtractedPacket =>
    LET found == \E k \in DOMAIN declaration.body :
                   /\ declaration.body[k].type = "method_declaration"
                   /\ declaration.body[k].name = "deserialize"
    IN /\ extracted.deserializeContext <=> found
       /\ ~found => /\ filterContext(<<extracted>>, 1) = <<>>
                    /\ ~analyzePacketRequests(extracted)
       /\ found => filterContext(<<extracted>>, 1) = <<1>>

\* a class with a serialize method and fields but no deserialize method
C22_Witness ==
  /\ ExtractedPacket
  /\ \E k \in DOMAIN declaration.body :
       declaration.body[k].type = "method_declaration" /\ declaration.body[k].name = "serialize"
  /\ extracted.fields # <<>>
  /\ ~extracted.deserializeContext

\* C25: among the non-copy constructors of the class the one with the greatest
\* parameter count is the field source, the first one in source order when several
\* share the greatest count.
C25_FullestConstructorChosen ==
  ExtractedPacket =>
    LET own == {k \in NonCopyWithParameters(declaration.body) :
                  declaration.body[k].parentClass = declaration.name}
    IN own # {} => fieldSource = FromConstructor(Fullest(declaration.body, own))

PacketFilesRead ==
  {i \in Files : /\ \E k \in DOMAIN reads : reads[k] = <<"packets", i>>
                 /\ Sound(i)
                 /\ \E k \in Classes(i) : sourceTree[i].declarations[k].name # ""}
CategoryOfFile(i) ==
  categoryOf(SubSeq(sourceTree[i].dir, 2, Len(sourceTree[i].dir)), "uncategorized")
RECURSIVE SumOfLengths(_)
SumOfLengths(m) == IF m = <<>> THEN 0 ELSE Len(Head(m).value) + SumOfLengths(Tail(m))

\* C30: every packet file yields at most one Message: the category lists hold one
\* packet per file read that declares a class, it is the one extracted from the
\* last class declaration of the file, and it stands in the list of the file's
\* category.
C30_LastClassOnePacket ==
  phase \in {"packets", "enums", "returned"} =>
    /\ SumOfLengths(packetsByCategory) = Cardinality(PacketFilesRead)
    /\ \A i \in PacketFilesRead :
         \E k \in DOMAIN PacketsOf(CategoryOfFile(i)) :
           LET packet == PacketsOf(CategoryOfFile(i))[k]
               last == sourceTree[i].declarations[LastOf(Classes(i))]
           IN /\ packet.name = last.name
              /\ packet.category = CategoryOfFile(i)
              /\ packet.fields = extractFields(last.body)

\* a file with two class declarations was read by the packet pass, next to
\* another packet file
C30_Witness ==
  /\ Returned
  /\ \E i \in PacketFilesRead : Cardinality(Classes(i)) = 2
  /\ Cardinality(PacketFilesRead) >= 2

(* ---------------- the lookup and the order of completions ---------------------- *)
\* the input packets of a name whose call produced a layout
ProducersOf(name) == {i \in DOMAIN packets : packets[i].name = name /\ Succeeded(i)}

\* C26: the lookup analyzePackets returns is a function of the input list and of
\* the outcome of each packet's call alone, whatever the order in which the
\* calls of a group resolved: its names are the names with a call that produced
\* a layout, and a name's entry is the layout of the latest such input packet.
C26_LookupIndependentOfOrder ==
  pc = "done" =>
    /\ DOMAIN results = {packets[i].name : i \in {k \in DOMAIN packets : Succeeded(k)}}
    /\ \A name \in DOMAIN results :
         results[name] = LayoutOf(LastOf(ProducersOf(name)))

\* two packets of one name were in the same group, both calls produced a layout,
\* and the lookup holds the later one's
C26_Witness ==
  /\ pc = "done"
  /\ \E g \in DOMAIN groups :
       \E a, b \in Range(groups[g]) :
         /\ a < b
         /\ packets[a].name = packets[b].name
         /\ Succeeded(a) /\ Succeeded(b)
         /\ LayoutOf(a) # LayoutOf(b)
         /\ results[packets[a].name] = LayoutOf(b)

\* C27: whatever the maxConcurrency option is (absent, zero, positive or negative),
\* analyzePackets returns in the end when every inference call resolves.
C27_EventuallyReturns == (pc \in {"loop", "await"}) ~> (pc = "done")


(* ----------------------- properties of the wiki generator ---------------------- *)
Generated == generator = "generated"

\* the category page of the running version
CategoryPage(category) == pages[version].categories[category]

\* the section of a packet on a page: from its heading to the rule that ends it
SectionStart(page, name) == first({i \in DOMAIN page : page[i] = Heading(2, name)})
Section(page, name) ==
  LET start == SectionStart(page, name)
      end == first({i \in start..Len(page) : page[i] = Rule})
  IN SubSeq(page, start, end - 1)
IsFieldRow(line) == line.kind = "row" /\ line.table = "fields"
IsFieldHeader(line) == line.kind = "header" /\ line.table = "fields"
WireColumns == {"Offset", "Size", "Encoding"}

\* the packets of the last generate that the layout lookup has no entry for
WithoutLayout(category) ==
  {k \in DOMAIN MapGet(documented, category) :
     MapGet(documented, category)[k].name \notin DOMAIN layouts}

\* C23: after generate, every packet without an entry in the layout lookup has a row
\* in the index of its category page and a section on it, the section has one row
\* per declared field, in the order of the fields, and the table of these rows has
\* the columns Name, Type and Nullable and none of Offset, Size and Encoding.
C23_NoLayoutStillRendered ==
  Generated =>
    \A category \in MapKeys(documented) :
      \A k \in WithoutLayout(category) :
        LET packet == MapGet(documented, category)[k]
            page == CategoryPage(category)
            section == Section(page, packet.name)
            rows == SelectSeq(section, IsFieldRow)
            headers == SelectSeq(section, IsFieldHeader)
        IN /\ SectionStart(page, packet.name) # 0
           /\ \E i \in DOMAIN page :
                /\ page[i].kind = "row"
                /\ page[i].table = "index"
                /\ page[i].cells[2].text = packet.name
           /\ Len(rows) = Len(packet.fields)
           /\ \A j \in DOMAIN rows : rows[j].cells[1].text = packet.fields[j].name
           /\ Len(headers) = (IF Len(packet.fields) > 0 THEN 1 ELSE 0)
           /\ \A j \in DOMAIN headers :
                /\ Range(headers[j].columns) \cap WireColumns = {}
                /\ {"Name", "Type", "Nullable"} \subseteq Range(headers[j].columns)

\* a page was generated for a category where one packet has a layout with fields
\* and another packet, which declares fields, has no entry in the lookup
C23_Witness ==
  /\ Generated
  /\ \E category \in MapKeys(documented) :
       /\ \E k \in WithoutLayout(category) :
            /\ Len(MapGet(documented, category)[k].fields) > 0
            /\ Len(SelectSeq(Section(CategoryPage(category),
                                     MapGet(documented, category)[k].name),
                             IsFieldRow)) > 0
       /\ \E k \in DOMAIN MapGet(documented, category) \ WithoutLayout(category) :
            Len(layouts[MapGet(documented, category)[k].name].fields) > 0

RECURSIVE split(_)
\* the lines of a page
split(content) ==
  LET newline == indexOf(content, "\n", 1)
  IN IF newline = 0 THEN <<content>>
     ELSE <<SubSeq(content, 1, newline - 1)>>
          \o split(SubSeq(content, newline + 1, Len(content)))

\* the list items of a page
IsListItem(line) == Len(line) >= 2 /\ SubSeq(line, 1, 2) = <<"-", " ">>
ListItems(file) == SelectSeq(split(file.content), IsListItem)

\* C28: after every run of generate, the list of the root Home page is the versions
\* of the runs so far, each once, in descending string order.
C28_HomeListsEveryVersion ==
  Generated =>
    LET expected == reverse(sort(Range(runs)))
    IN ListItems(homeFile) = [k \in DOMAIN expected |-> versionItem(expected[k])]

\* C29: after every run of generate, the list of the root sidebar has exactly one
\* item for each version of the runs so far.
C29_SidebarListsEveryVersion ==
  Generated =>
    \A v \in Range(runs) :
      Cardinality({k \in DOMAIN ListItems(sidebarFile) :
                     ListItems(sidebarFile)[k] = versionItem(v)}) = 1

====
